---- MODULE Spec2Model ----
(***************************************************************************)
(* A model of the lincxrpc client runtime.                                 *)
(*                                                                         *)
(*   SpecSP  the single-provider client (client/sp_client.go): Call, Go,   *)
(*           send, the receive loop input and Close, as tasks that         *)
(*           interleave at the granularity of the sync.Map, channel and    *)
(*           field accesses of the code, against a server that answers     *)
(*           the requests it has received in any order.                    *)
(*   SpecSG  the service-governance client (sgClient.Call, selectClient,   *)
(*           getclient, removeClient) with its pool of single-provider     *)
(*           clients and its circuit breakers, against providers that fail *)
(*           a number of attempts in a given way and then answer.          *)
(***************************************************************************)
EXTENDS Integers, Sequences, FiniteSets, TLC

(***************************************************************************)
(* Bounds of the model.                                                    *)
(***************************************************************************)
NumCalls == 2
MaxSGCalls == 3
MaxRetries == 2
MaxFails == 2
MaxTime == 2

Calls == 1..NumCalls
\* The service method Call k names.
MethodOf(k) == IF k = 3 THEN "Arith.Divide" ELSE "Arith.Add"
RemoteErrors == {"divided by 0"}

(***************************************************************************)
(* Error values.  A Go error is modelled by its dynamic type (kind) and    *)
(* its Error() string (msg); nil is the kind "nil".                        *)
(***************************************************************************)
NilErr == [kind |-> "nil", msg |-> ""]
NewError(s) == [kind |-> "error", msg |-> s]
ServiceError(s) == [kind |-> "ServiceError", msg |-> s]
IsServiceError(e) == e.kind = "ServiceError"
ErrorShutDown == NewError("client is shut down")
ErrTimeOut == NewError("client request time out")
\* The error of c.codec.Encode or c.rwc.Write in send; send treats the two alike.
ErrWrite == NewError("write error")
ErrReadingBody == NewError("reading body")

(***************************************************************************)
(* Wire messages: the header fields the client and server act on.          *)
(***************************************************************************)
MessageTypeRequest == "request"
MessageTypeResponse == "response"
MessageTypeHeartbeat == "heartbeat"

ZeroReply == [set |-> FALSE, of |-> 0]
BadData == [set |-> FALSE, of |-> -1]

\* What the remote method computes for argument a, as the encoded body.
ReplyData(a) == [set |-> TRUE, of |-> a]

VARIABLES
  seq,            \* simpleClient.seq
  pendingCalls,   \* simpleClient.pendingCalls: Seq -> Call
  shutdown,       \* simpleClient.shutdown
  call,           \* the Call object and the caller task of every Call
  wire,           \* request frames written to the connection, not yet answered
  inputPc,        \* position of the receive loop
  response,       \* the frame the receive loop is handling
  inputCall,      \* the Call the receive loop (or Close's Range) has loaded
  closeLeft,      \* keys present when Close's Range began, still to be visited
  fatal,          \* log.Fatalf was called: the process has exited
  option,         \* sgClient.option: FailMode, Retries, the breaker's configuration
  servers,        \* sgClient.servers: the cached provider list
  clients,        \* sgClient.clients: ProviderKey -> pooled client
  breakers,       \* sgClient.breakers: ProviderKey -> circuit breaker
  rpc,            \* every single-provider client dialled so far
  env,            \* how each provider answers
  now,            \* the clock
  sg,             \* the task calling sgClient.Call: its position and locals
  hist,           \* what the current Call of the governance client has done
  shadow,         \* per provider, a breaker that is told every Call's result
  degraded,       \* ProviderKeys whose cached entry has Meta[provider_degrade]
  hbFail,         \* sgClient.clientsHeartbeatFail
  hb,             \* the task running sgClient.heartbeat: its position and locals
  hbEnv,          \* how each provider treats a heartbeat
  regProviders,   \* memory.Registry.providers
  regEvents,      \* the sendWatcherEvent goroutines that have not finished
  regOps,         \* how many Register and Unregister calls were made
  watch,          \* the task running sgClient.watchService
  sgShutdown,     \* sgClient.shutdown
  sgClose,        \* the task calling sgClient.Close: its position and locals
  svShutdown,     \* SGServer.shutdown
  requestInProcess, \* SGServer.requestInProcess
  svTr,           \* SGServer.tr, the listening transport
  svClose,        \* position of the task calling SGServer.Close
  conn,           \* the task running serveTransport on one connection, and its locals
  svRead,         \* how many frames the connection's client has sent
  written,        \* the last response frame written on the connection, with its request
  prSent,         \* the messages given to EncodeMessage, in order
  prStream,       \* the bytes the reader has still to deliver
  prGot,          \* what the DecodeMessage calls returned, in order
  prTrunc,        \* which frame of the stream lost its last byte (0: none)
  prPc,           \* whether the stream is being written, read, or is done with
  slArgs,         \* the arguments of the Selector.Next call
  slRet,          \* what the Selector.Next call returned
  svcMap,         \* SGServer.serviceMap as Register builds it: name -> methods
  regRet,         \* the last SGServer.Register call: receiver, table before, error
  wc,             \* a Call through the context interceptor: its context, the clock, its result
  srv,            \* SGServer.serve: where the accept loop stands and what Serve returned
  uw              \* the registry's watchers and lock, the client's watcher, and Close's goroutine

spVars == <<seq, pendingCalls, shutdown, call, wire, inputPc, response, inputCall, closeLeft, fatal>>
sgVars == <<option, servers, clients, breakers, rpc, env, now, sg, hist, shadow>>
hbVars == <<degraded, hbFail, hb, hbEnv>>
rgVars == <<regProviders, regEvents, regOps, watch>>
clVars == <<sgShutdown, sgClose>>
svVars == <<svShutdown, requestInProcess, svTr, svClose, conn, svRead, written>>
prVars == <<prSent, prStream, prGot, prTrunc, prPc>>
xVars == <<srv, uw>>
fnVars == <<slArgs, slRet, svcMap, regRet, wc, xVars>>
extVars == <<rgVars, clVars, svVars, prVars, fnVars>>
vars == <<seq, pendingCalls, shutdown, call, wire, inputPc, response, inputCall, closeLeft, fatal,
          option, servers, clients, breakers, rpc, env, now, sg, hist, shadow,
          degraded, hbFail, hb, hbEnv,
          regProviders, regEvents, regOps, watch,
          sgShutdown, sgClose,
          svShutdown, requestInProcess, svTr, svClose, conn, svRead, written,
          prSent, prStream, prGot, prTrunc, prPc,
          slArgs, slRet, svcMap, regRet, wc,
          srv, uw>>

\* What the actions of the single-provider client, and of the governance
\* client's Call, leave alone.
notSP == <<sgVars, hbVars, extVars>>
notSG == <<spVars, hbVars, extVars>>

NoResponse == [Seq |-> 0, MessageType |-> "none", ServiceMethod |-> "", Error |-> "", Data |-> ZeroReply]

NewCall == [pc |-> "idle", seq |-> 0, ServiceMethod |-> "", Args |-> 0,
            Reply |-> ZeroReply, Error |-> NilErr, Done |-> 0, ctxDone |-> FALSE,
            ret |-> NilErr, via |-> "none", fromSeq |-> 0, byGo |-> FALSE,
            pendingAtErr |-> FALSE]

Store(m, k, v) == [x \in DOMAIN m \cup {k} |-> IF x = k THEN v ELSE m[x]]
Delete(m, k) == [x \in DOMAIN m \ {k} |-> m[x]]

(***************************************************************************)
(* Fail modes, providers and the governance client's configuration.        *)
(***************************************************************************)
FailFast == "FailFast"
FailOver == "FailOver"
FailRetry == "FailRetry"
FailSafe == "FailSafe"
FailModes == {FailFast, FailOver, FailRetry, FailSafe}

Providers == {"tcp@a", "tcp@b"}
\* The zero registry.Provider that a failed selection returns.
NoProvider == ""

\* CircuitBreakerThreshold and CircuitBreakerWindow of a client that
\* configures the breaker (both zero otherwise), the window in clock ticks.
BreakerThreshold == 2
BreakerWindow == 2

ErrBreakerOpen == NewError("breaker open")
ErrEmptyProviderList == NewError("provider list is empty")
ErrDial == NewError("dial error")

\* The ways a provider can fail an attempt: the dial, the write of the
\* request, the connection closing under the Call, the remote method
\* returning an error, the response coming after the deadline.
FailKinds == {"dial", "write", "closed", "service", "timeout"}
Always == 0 - 1
Healthy == [kind |-> "none", left |-> 0, msg |-> ""]
Behaviours ==
  {Healthy} \cup
  [kind : FailKinds \ {"service"}, left : (1..MaxFails) \cup {Always}, msg : {""}] \cup
  [kind : {"service"}, left : (1..MaxFails) \cup {Always}, msg : RemoteErrors]

(***************************************************************************)
(* The circuit breaker.  A breaker holds the times of the failures inside  *)
(* its rolling window and, when OPEN, the time it opened (-1 when CLOSED). *)
(***************************************************************************)
NewDefaultCircuitBreaker == [fails |-> << >>, openedAt |-> -1]
IsOpen(b) == b.openedAt # -1

\* OPEN refuses for the duration of the window; once the window has
\* elapsed a trial call is allowed.
AllowRequest(b, t) == ~IsOpen(b) \/ t - b.openedAt >= BreakerWindow

\* Success closes the breaker.
BreakerSuccess(b) == NewDefaultCircuitBreaker

\* A failure of the trial call re-opens; otherwise the failure is counted
\* and the breaker opens when the failures inside the window reach the
\* threshold.
BreakerFail(b, t) ==
  IF IsOpen(b) THEN [b EXCEPT !.openedAt = t]
  ELSE LET recent == SelectSeq(Append(b.fails, t), LAMBDA x : t - x < BreakerWindow)
       IN [fails |-> recent,
           openedAt |-> IF Len(recent) >= BreakerThreshold THEN t ELSE -1]

NoHist == [attempts |-> << >>, env0 |-> << >>, refused |-> << >>, reply |-> ZeroReply,
           ret |-> NilErr, sentOpen |-> FALSE]
SGIdle == [pc |-> "idle", provider |-> NoProvider, rpcClient |-> 0, err |-> NilErr,
           connectErr |-> NilErr, retries |-> 0, calls |-> 0]

\* The governance client left alone, for the specification of the
\* single-provider client.
SGQuiet ==
  /\ option = [FailMode |-> FailFast, Retries |-> 0, Breaker |-> FALSE]
  /\ servers = {}
  /\ clients = << >>
  /\ breakers = << >>
  /\ rpc = << >>
  /\ env = [p \in Providers |-> Healthy]
  /\ now = 0
  /\ sg = SGIdle
  /\ hist = NoHist
  /\ shadow = [p \in Providers |-> NewDefaultCircuitBreaker]

\* The heartbeat task of the governance client not started.
HBIdle == [pc |-> "off", key |-> NoProvider, left |-> {}, err |-> NilErr]
HBQuiet ==
  /\ degraded = {}
  /\ hbFail = << >>
  /\ hb = HBIdle
  /\ hbEnv = [p \in Providers |-> "answer"]

\* The registry empty and never called, the watch task waiting in Next.
WatchIdle == [pc |-> "next", event |-> << >>]
RGQuiet ==
  /\ regProviders = << >>
  /\ regEvents = << >>
  /\ regOps = 0
  /\ watch = WatchIdle

\* Close of the governance client not called.
CloseIdle == [pc |-> "idle", left |-> {}, pooled |-> {}]
CLQuiet ==
  /\ sgShutdown = FALSE
  /\ sgClose = CloseIdle

\* The server constructed, Serve not called.
NoMessage == [Header |-> 0, Data |-> ""]
NoFrame == [Header |-> << >>, Data |-> ""]
ConnIdle == [pc |-> "top", closed |-> FALSE, heap |-> << >>, arrived |-> NoFrame,
             request |-> NoMessage, response |-> NoMessage]
NothingWritten == [request |-> NoFrame, response |-> NoFrame, afterError |-> FALSE]
SVQuiet ==
  /\ svShutdown = FALSE
  /\ requestInProcess = 0
  /\ svTr = "nil"
  /\ svClose = "idle"
  /\ conn = [ConnIdle EXCEPT !.pc = "none"]
  /\ svRead = 0
  /\ written = NothingWritten

\* No byte stream.
PRQuiet ==
  /\ prSent = << >>
  /\ prStream = << >>
  /\ prGot = << >>
  /\ prTrunc = 0
  /\ prPc = "none"

\* The registry, the server and the frame codec left alone.
\* registry.Provider values with their Meta map: nil, or holding the degrade
\* key, or a tags map with one colour, or nothing.
NilMeta == [nil |-> TRUE, degrade |-> FALSE, color |-> ""]
ProviderMetas ==
  {NilMeta,
   [nil |-> FALSE, degrade |-> FALSE, color |-> ""],
   [nil |-> FALSE, degrade |-> TRUE, color |-> ""],
   [nil |-> FALSE, degrade |-> FALSE, color |-> "blue"],
   [nil |-> FALSE, degrade |-> FALSE, color |-> "green"]}
ZeroProvider == [ProviderKey |-> "", Network |-> "", Addr |-> "", Meta |-> NilMeta]
ProviderRecords ==
  {[ProviderKey |-> "tcp@" \o a, Network |-> "tcp", Addr |-> a, Meta |-> m] :
     a \in {"a", "b"}, m \in ProviderMetas}

\* The metadata map of the caller's context: how many entries it has, and
\* the string under "server" if there is one.
NoCtxMeta == [entries |-> 0, hasServer |-> FALSE, server |-> ""]
CtxMetas ==
  {NoCtxMeta,
   [entries |-> 1, hasServer |-> FALSE, server |-> ""],
   [entries |-> 1, hasServer |-> TRUE, server |-> ""],
   [entries |-> 1, hasServer |-> TRUE, server |-> "a"],
   [entries |-> 1, hasServer |-> TRUE, server |-> "c"]}

\* No call of a selector.
NoArgs == [selector |-> "none", providers |-> << >>, Filters |-> << >>, meta |-> NoCtxMeta]
NoRet == [kind |-> "none", rp |-> ZeroProvider, err |-> NilErr]
\* No call of Register yet.
NoRegister == [calls |-> 0, typ |-> [name |-> "", methods |-> << >>], before |-> << >>, err |-> NilErr]

\* No Call through the interceptor.
NoWrap == [pc |-> "none", hasDeadline |-> FALSE, deadline |-> 0, RequestTimeout |-> 0,
           timeout |-> 0, ctxDeadline |-> 0, clock |-> 0, answered |-> FALSE, ret |-> NilErr]

\* Serve has not been called.
NoServe == [pc |-> "none", ret |-> "none"]

\* No registry is watched.
NoUnwatch == [registry |-> "none", mu |-> "free", watchers |-> {}, watcher |-> "nil",
              exit |-> "open", pc |-> "idle", ws |-> "none", calls |-> 0]

XQuiet ==
  /\ srv = NoServe
  /\ uw = NoUnwatch

FNQuiet ==
  /\ slArgs = NoArgs
  /\ slRet = NoRet
  /\ svcMap = << >>
  /\ regRet = NoRegister
  /\ wc = NoWrap
  /\ XQuiet

ExtQuiet == RGQuiet /\ CLQuiet /\ SVQuiet /\ PRQuiet /\ FNQuiet

SPInit ==
  /\ seq = 0
  /\ pendingCalls = << >>
  /\ shutdown = FALSE
  /\ call = [k \in Calls |-> NewCall]
  /\ wire = {}
  /\ inputPc = "decode"
  /\ response = NoResponse
  /\ inputCall = 0
  /\ closeLeft = {}
  /\ fatal = FALSE

InitSP == SPInit /\ SGQuiet /\ HBQuiet /\ ExtQuiet

(***************************************************************************)
(* simpleClient.Call, Go and send: the caller task of Call k.  Steps that  *)
(* touch nothing another task reads are joined to the next one that does.  *)
(***************************************************************************)
\* atomic.AddUint64(&c.seq, 1); the counter is a uint64 and the model never
\* comes near its wrap.
NextSeq(s) == s + 1

\* The request of send: of type heartbeat when the service method is empty.
Request(k) == [Seq |-> call[k].seq,
               MessageType |-> IF call[k].ServiceMethod # "" THEN MessageTypeRequest
                               ELSE MessageTypeHeartbeat,
               ServiceMethod |-> call[k].ServiceMethod, Args |-> call[k].Args]

\* Call takes a sequence number and puts it in the context; Go makes the
\* Call with its channel of capacity 1; send stores it in pendingCalls.
\* The Calls are numbered in the order they take their sequence numbers.
CallBegin(k) ==
  /\ ~fatal
  /\ call[k].pc = "idle"
  /\ \A j \in Calls : j < k => call[j].pc # "idle"
  /\ seq' = NextSeq(seq)
  /\ pendingCalls' = Store(pendingCalls, NextSeq(seq), k)
  /\ call' = [call EXCEPT ![k].pc = "write", ![k].seq = NextSeq(seq),
                          ![k].ServiceMethod = MethodOf(k), ![k].Args = k]
  /\ UNCHANGED <<shutdown, wire, inputPc, response, inputCall, closeLeft, fatal>>
  /\ UNCHANGED notSP

\* send: encode the argument and write the frame; on an encode or write
\* error delete the pending entry and set the Call's error.
SendWrite(k) ==
  /\ ~fatal
  /\ call[k].pc = "write"
  /\ \E r \in {"ok", "error"} :
       IF r = "ok"
       THEN /\ wire' = wire \cup {Request(k)}
            /\ call' = [call EXCEPT ![k].pc = "wait"]
            /\ UNCHANGED pendingCalls
       ELSE /\ pendingCalls' = Delete(pendingCalls, call[k].seq)
            /\ call' = [call EXCEPT ![k].pc = "senddone",
                                     ![k].Error = ErrWrite]
            /\ UNCHANGED wire
  /\ UNCHANGED <<seq, shutdown, inputPc, response, inputCall, closeLeft, fatal>>
  /\ UNCHANGED notSP

\* call.done() after a failed send: a send on the buffered channel of
\* capacity 1 that Call made; it blocks while the channel is full.
SendFailDone(k) ==
  /\ ~fatal
  /\ call[k].pc = "senddone"
  /\ call[k].Done < 1
  /\ call' = [call EXCEPT ![k].pc = "wait", ![k].Done = @ + 1]
  /\ UNCHANGED <<seq, pendingCalls, shutdown, wire, inputPc, response, inputCall, closeLeft, fatal>>
  /\ UNCHANGED notSP

\* The caller's context is cancelled or its deadline expires; only the
\* select of Call observes it.
CtxDone(k) ==
  /\ ~fatal
  /\ call[k].pc = "wait"
  /\ ~call[k].ctxDone
  /\ call' = [call EXCEPT ![k].ctxDone = TRUE]
  /\ UNCHANGED <<seq, pendingCalls, shutdown, wire, inputPc, response, inputCall, closeLeft, fatal>>
  /\ UNCHANGED notSP

\* select, case <-call.Done.
CallSelectDone(k) ==
  /\ ~fatal
  /\ call[k].pc = "wait"
  /\ call[k].Done > 0
  /\ call' = [call EXCEPT ![k].pc = "return", ![k].Done = @ - 1, ![k].via = "done"]
  /\ UNCHANGED <<seq, pendingCalls, shutdown, wire, inputPc, response, inputCall, closeLeft, fatal>>
  /\ UNCHANGED notSP

\* select, case <-ctx.Done(): c.pendingCalls.Delete(seq).
CallTimeout(k) ==
  /\ ~fatal
  /\ call[k].pc = "wait"
  /\ call[k].ctxDone
  /\ pendingCalls' = Delete(pendingCalls, call[k].seq)
  /\ call' = [call EXCEPT ![k].pc = "seterr", ![k].via = "ctx"]
  /\ UNCHANGED <<seq, shutdown, wire, inputPc, response, inputCall, closeLeft, fatal>>
  /\ UNCHANGED notSP

\* call.Error = errors.New("client request time out").
CallSetTimeoutErr(k) ==
  /\ ~fatal
  /\ call[k].pc = "seterr"
  /\ call' = [call EXCEPT ![k].pc = "return", ![k].Error = ErrTimeOut]
  /\ UNCHANGED <<seq, pendingCalls, shutdown, wire, inputPc, response, inputCall, closeLeft, fatal>>
  /\ UNCHANGED notSP

\* return call.Error.
CallReturn(k) ==
  /\ ~fatal
  /\ call[k].pc = "return"
  /\ call' = [call EXCEPT ![k].pc = "returned", ![k].ret = call[k].Error]
  /\ UNCHANGED <<seq, pendingCalls, shutdown, wire, inputPc, response, inputCall, closeLeft, fatal>>
  /\ UNCHANGED notSP

(***************************************************************************)
(* The server end of the connection, as the client sees it: it has read    *)
(* the request frames on the wire and answers them one at a time, in any   *)
(* order.  A response is the request's header cloned, with MessageType     *)
(* Response, and the remote method's error string or its encoded reply.    *)
(***************************************************************************)
Outcomes == {"ok", "garbled"} \cup RemoteErrors

\* A heartbeat is answered as the server's process answers it: its type is
\* Response already when process tests it (the response shares the
\* request's header), so the empty service name is looked up and not found.
Respond(req, o) ==
  IF req.MessageType = MessageTypeHeartbeat
  THEN [Seq |-> req.Seq, MessageType |-> MessageTypeResponse,
        ServiceMethod |-> req.ServiceMethod,
        Error |-> "can not find service", Data |-> ZeroReply]
  ELSE [Seq |-> req.Seq, MessageType |-> MessageTypeResponse,
        ServiceMethod |-> req.ServiceMethod,
        Error |-> IF o \in RemoteErrors THEN o ELSE "",
        Data |-> IF o = "ok" THEN ReplyData(req.Args)
                 ELSE IF o = "garbled" THEN BadData ELSE ZeroReply]

(***************************************************************************)
(* simpleClient.input: the receive loop.                                   *)
(***************************************************************************)
\* A receive loop that hands every response to the oldest Call.
LookupOldest(r) == 1

\* The key the receive loop looks the response up under.
LookupKey(r) == r.Seq

\* have := response.ServiceName + "." + response.MethodName, of a frame whose
\* two names are the halves of the request's service method, and are both
\* empty for a heartbeat.
HaveServiceMethod(r) == IF r.ServiceMethod = "" THEN "." ELSE r.ServiceMethod

\* protocol.DecodeMessage returns the next frame; c.pendingCalls.Load(seq),
\* and a response with no pending Call is dropped.  A response that is not
\* a heartbeat must name the Call's service method (log.Fatalf otherwise);
\* then c.pendingCalls.Delete(seq).
InputDecode ==
  /\ ~fatal
  /\ inputPc = "decode"
  /\ \E req \in wire, o \in Outcomes :
       LET r == Respond(req, o) IN
       /\ wire' = wire \ {req}
       /\ IF LookupKey(r) \notin DOMAIN pendingCalls
          THEN UNCHANGED <<response, inputCall, inputPc, pendingCalls, fatal>>
          ELSE IF r.MessageType = MessageTypeHeartbeat
          THEN UNCHANGED <<response, inputCall, inputPc, pendingCalls, fatal>>
          ELSE IF HaveServiceMethod(r) # call[pendingCalls[LookupKey(r)]].ServiceMethod
          THEN /\ fatal' = TRUE
               /\ UNCHANGED <<response, inputCall, inputPc, pendingCalls>>
          ELSE /\ response' = r
               /\ inputCall' = pendingCalls[LookupKey(r)]
               /\ pendingCalls' = Delete(pendingCalls, r.Seq)
               /\ inputPc' = "result"
               /\ UNCHANGED fatal
  /\ UNCHANGED <<seq, shutdown, call, closeLeft>>
  /\ UNCHANGED notSP

\* protocol.DecodeMessage returns an error (a framing error, or the
\* connection was closed): break out of the loop, to Close.
InputDecodeError ==
  /\ ~fatal
  /\ inputPc = "decode"
  /\ inputPc' = "close"
  /\ call' = [k \in Calls |->
               [call[k] EXCEPT !.pendingAtErr = /\ call[k].seq \in DOMAIN pendingCalls
                                                /\ call[k].pc = "wait"]]
  /\ UNCHANGED <<seq, pendingCalls, shutdown, wire, response, inputCall, closeLeft, fatal>>
  /\ UNCHANGED notSP

\* c.codec.Decode(response.Data, call.Reply): the body decodes or not.
BodyDecodes(r) == r.Data # BadData

\* The switch: a non-empty error string makes a ServiceError, otherwise the
\* body is decoded into call.Reply.
InputResult ==
  /\ ~fatal
  /\ inputPc = "result"
  /\ call' = [call EXCEPT
       ![inputCall].Error = IF response.Error # "" THEN ServiceError(response.Error)
                            ELSE IF BodyDecodes(response) THEN @ ELSE ErrReadingBody,
       ![inputCall].Reply = IF response.Error = "" /\ BodyDecodes(response)
                            THEN response.Data ELSE @,
       ![inputCall].fromSeq = response.Seq]
  /\ inputPc' = "signal"
  /\ UNCHANGED <<seq, pendingCalls, shutdown, wire, response, inputCall, closeLeft, fatal>>
  /\ UNCHANGED notSP

\* call.done(); the loop goes on while err == nil, and err is the body
\* decode's error.
InputSignal ==
  /\ ~fatal
  /\ inputPc = "signal"
  /\ call[inputCall].Done < 1
  /\ call' = [call EXCEPT ![inputCall].Done = @ + 1]
  /\ inputPc' = IF response.Error = "" /\ ~BodyDecodes(response) THEN "close" ELSE "decode"
  /\ response' = NoResponse
  /\ inputCall' = 0
  /\ UNCHANGED <<seq, pendingCalls, shutdown, wire, closeLeft, fatal>>
  /\ UNCHANGED notSP

(***************************************************************************)
(* simpleClient.Close, called by input when its loop ends.                 *)
(***************************************************************************)
\* c.shutdown = true, and pendingCalls.Range begins.
CloseBegin ==
  /\ ~fatal
  /\ inputPc = "close"
  /\ shutdown' = TRUE
  /\ closeLeft' = DOMAIN pendingCalls
  /\ inputPc' = "range"
  /\ UNCHANGED <<seq, pendingCalls, call, wire, response, inputCall, fatal>>
  /\ UNCHANGED notSP

\* Range calls the function with an entry.  Range is no snapshot: an entry
\* stored while it runs may be visited or missed.
CloseVisit ==
  /\ ~fatal
  /\ inputPc = "range"
  /\ \E key \in DOMAIN pendingCalls :
       /\ inputCall' = pendingCalls[key]
       /\ closeLeft' = closeLeft \ {key}
  /\ inputPc' = "fail"
  /\ UNCHANGED <<seq, pendingCalls, shutdown, call, wire, response, fatal>>
  /\ UNCHANGED notSP

\* call.Error = ErrorShutDown.
CloseSetErr ==
  /\ ~fatal
  /\ inputPc = "fail"
  /\ call' = [call EXCEPT ![inputCall].Error = ErrorShutDown]
  /\ inputPc' = "faildone"
  /\ UNCHANGED <<seq, pendingCalls, shutdown, wire, response, inputCall, closeLeft, fatal>>
  /\ UNCHANGED notSP

\* call.done(); c.pendingCalls.Delete(key).
CloseSignal ==
  /\ ~fatal
  /\ inputPc = "faildone"
  /\ call[inputCall].Done < 1
  /\ call' = [call EXCEPT ![inputCall].Done = @ + 1]
  /\ pendingCalls' = Delete(pendingCalls, call[inputCall].seq)
  /\ inputPc' = "range"
  /\ inputCall' = 0
  /\ UNCHANGED <<seq, shutdown, wire, response, closeLeft, fatal>>
  /\ UNCHANGED notSP

\* Range has visited every entry that was there throughout; Close returns
\* and input ends.
CloseEnd ==
  /\ ~fatal
  /\ inputPc = "range"
  /\ closeLeft \cap DOMAIN pendingCalls = {}
  /\ inputPc' = "closed"
  /\ closeLeft' = {}
  /\ UNCHANGED <<seq, pendingCalls, shutdown, call, wire, response, inputCall, fatal>>
  /\ UNCHANGED notSP

(***************************************************************************)
(* The governance client.  The pool state (clients, breakers, the dialled  *)
(* clients, the providers' behaviour) is threaded through the operators    *)
(* below as one record.                                                    *)
(***************************************************************************)
Pool == [clients |-> clients, breakers |-> breakers, rpc |-> rpc, env |-> env]

\* One failing attempt of provider p is used up.
Consume(e, p) ==
  IF p \in DOMAIN e /\ e[p].left > 0
  THEN [e EXCEPT ![p] = IF e[p].left = 1 THEN Healthy ELSE [@ EXCEPT !.left = @ - 1]]
  ELSE e

Failing(e, p, kinds) == p \in DOMAIN e /\ e[p].kind \in kinds /\ e[p].left # 0

\* sgClient.removeClient: delete the pool entry, close the client if there
\* is one, delete the breaker.
RemoveClient(st, key, client) ==
  [st EXCEPT !.clients = Delete(@, key),
             !.rpc = IF client # 0 THEN [@ EXCEPT ![client].shutdown = TRUE] ELSE @,
             !.breakers = Delete(@, key)]

\* Whether getclient stores a breaker with a new client:
\* CircuitBreakerThreshold > 0 && CircuitBreakerWindow > 0.
BreakerConfigured == option.Breaker

\* sgClient.getclient.  NewRPCClient fails when the dial fails (the zero
\* provider cannot be dialled).
getclient(st, p) ==
  IF p \in DOMAIN st.breakers /\ ~AllowRequest(st.breakers[p], now)
  THEN [st |-> st, provider |-> p, client |-> 0, err |-> ErrBreakerOpen]
  ELSE IF p \in DOMAIN st.clients /\ ~st.rpc[st.clients[p]].shutdown
  THEN [st |-> st, provider |-> p, client |-> st.clients[p], err |-> NilErr]
  ELSE LET s1 == IF p \in DOMAIN st.clients THEN RemoveClient(st, p, st.clients[p]) ELSE st
       IN IF p = NoProvider \/ Failing(s1.env, p, {"dial"})
          THEN [st |-> [s1 EXCEPT !.env = Consume(@, p)], provider |-> p, client |-> 0,
                err |-> ErrDial]
          ELSE [st |-> [s1 EXCEPT !.rpc = Append(@, [key |-> p, shutdown |-> FALSE]),
                                  !.clients = Store(@, p, Len(s1.rpc) + 1),
                                  !.breakers = IF BreakerConfigured
                                               THEN Store(@, p, NewDefaultCircuitBreaker)
                                               ELSE @],
                provider |-> p, client |-> Len(s1.rpc) + 1, err |-> NilErr]

\* selector.DegradeProviderFilter, which NewSGClient configures with the
\* heartbeat: a provider passes unless its Meta has provider_degrade.
DegradeProviderFilter(p) == p \notin degraded

\* The providers of the cached list that pass the filters.
Selectable == {p \in servers : DegradeProviderFilter(p)}

\* sgClient.selectClient: RandomSelector.Next over the cached list (any
\* element, or the empty-list error and the zero provider), then getclient.
selectClient(st) ==
  IF Selectable = {}
  THEN {[st |-> st, provider |-> NoProvider, client |-> 0, err |-> ErrEmptyProviderList]}
  ELSE {getclient(st, p) : p \in Selectable}

\* rpcClient.Call on pooled client id (simpleClient.Call): what the caller
\* gets from a provider behaving as env says.
CallOutcome(st, id) ==
  LET p == st.rpc[id].key
      b == st.env[p]
  IN IF Failing(st.env, p, {"write", "closed", "service", "timeout"})
     THEN [st |-> [st EXCEPT !.env = Consume(@, p),
                             !.rpc = IF b.kind = "closed"
                                     THEN [@ EXCEPT ![id].shutdown = TRUE] ELSE @],
           err |-> IF b.kind = "write" THEN ErrWrite
                   ELSE IF b.kind = "closed" THEN ErrorShutDown
                   ELSE IF b.kind = "service" THEN ServiceError(b.msg)
                   ELSE ErrTimeOut,
           reply |-> ZeroReply]
     ELSE [st |-> st, err |-> NilErr, reply |-> ReplyData(1)]

\* breaker.Success() or breaker.Fail(err) on the breaker stored under key,
\* if there is one.
Observe(st, key, e) ==
  IF key \in DOMAIN st.breakers
  THEN [st EXCEPT !.breakers[key] = IF e = NilErr THEN BreakerSuccess(@)
                                    ELSE BreakerFail(@, now)]
  ELSE st

\* The retry branches tell the breaker of a failed call only when the
\* error is a ServiceError.
ObserveInLoop(st, key, e) ==
  IF e = NilErr \/ IsServiceError(e) THEN Observe(st, key, e) ELSE st

\* A default branch that removes the pooled client on every error.
EvictsOnAnyError(e) == e # NilErr

\* The default branch removes the pooled client on an error that is not a
\* ServiceError.
EvictsClient(e) == e # NilErr /\ ~IsServiceError(e)

\* A default branch that keeps the error under every fail mode.
KeepError(mode, e) == e

\* if c.option.FailMode == FailSafe { err = nil }
Swallow(mode, e) == IF mode = FailSafe THEN NilErr ELSE e

SetPool(st) ==
  /\ clients' = st.clients
  /\ breakers' = st.breakers
  /\ rpc' = st.rpc
  /\ env' = st.env

\* The history of a Call that makes an attempt on pooled client id.
Attempted(h, id, out) ==
  [h EXCEPT !.attempts = Append(@, [p |-> rpc[id].key, client |-> id, err |-> out.err]),
            !.reply = out.reply,
            !.sentOpen = @ \/ (BreakerConfigured /\ ~AllowRequest(shadow[rpc[id].key], now))]

\* The history of a Call whose acquisition of a client gave result r.
Acquired(h, r) ==
  IF r.err = ErrBreakerOpen
  THEN [h EXCEPT !.refused = Store(@, r.provider, breakers[r.provider])]
  ELSE h

\* The shadow breaker of the provider the Call made its last attempt on is
\* told the Call's result.
ShadowAfter(h, e) ==
  IF BreakerConfigured /\ Len(h.attempts) > 0
  THEN LET p == h.attempts[Len(h.attempts)].p
       IN [shadow EXCEPT ![p] = IF e = NilErr THEN BreakerSuccess(@) ELSE BreakerFail(@, now)]
  ELSE shadow

\* sgClient.Call up to the switch: selectClient, and under FailFast the
\* return of its error.
SGCallBegin ==
  /\ sg.pc \in {"idle", "done"}
  /\ sg.calls < MaxSGCalls
  /\ \E r \in selectClient(Pool) :
       /\ SetPool(r.st)
       /\ IF r.err # NilErr /\ option.FailMode = FailFast
          THEN /\ sg' = [SGIdle EXCEPT !.pc = "done", !.provider = r.provider,
                                       !.err = r.err, !.calls = sg.calls + 1]
               /\ hist' = [Acquired(NoHist, r) EXCEPT !.env0 = env, !.ret = r.err]
          ELSE /\ sg' = [pc |-> IF option.FailMode \in {FailRetry, FailOver}
                                THEN "loop" ELSE "call",
                         provider |-> r.provider, rpcClient |-> r.client, err |-> r.err,
                         connectErr |-> NilErr, retries |-> option.Retries,
                         calls |-> sg.calls + 1]
               /\ hist' = [Acquired(NoHist, r) EXCEPT !.env0 = env]
  /\ UNCHANGED <<option, servers, now, shadow>>
  /\ UNCHANGED notSG

\* FailRetry and FailOver, an iteration with a client: the call is made and
\* Call returns its error.
SGLoopCall ==
  /\ sg.pc = "loop"
  /\ sg.retries > 0
  /\ sg.rpcClient # 0
  /\ LET out == CallOutcome(Pool, sg.rpcClient)
         h == [Attempted(hist, sg.rpcClient, out) EXCEPT !.ret = out.err]
     IN /\ SetPool(ObserveInLoop(out.st, sg.provider, out.err))
        /\ sg' = [sg EXCEPT !.pc = "done", !.retries = @ - 1, !.err = out.err]
        /\ hist' = h
        /\ shadow' = ShadowAfter(h, out.err)
  /\ UNCHANGED <<option, servers, now>>
  /\ UNCHANGED notSG

\* FailRetry and FailOver, an iteration without a client: removeClient,
\* then getclient on the same provider (FailRetry) or selectClient
\* (FailOver).
SGLoopAcquire ==
  /\ sg.pc = "loop"
  /\ sg.retries > 0
  /\ sg.rpcClient = 0
  /\ LET s1 == RemoveClient(Pool, sg.provider, 0)
     IN \E r \in IF option.FailMode = FailRetry THEN {getclient(s1, sg.provider)}
                 ELSE selectClient(s1) :
          /\ SetPool(r.st)
          /\ sg' = [sg EXCEPT !.retries = @ - 1, !.provider = r.provider,
                              !.rpcClient = r.client, !.connectErr = r.err]
          /\ hist' = IF r.err = ErrBreakerOpen
                     THEN [hist EXCEPT !.refused = Store(@, r.provider, s1.breakers[r.provider])]
                     ELSE hist
  /\ UNCHANGED <<option, servers, now, shadow>>
  /\ UNCHANGED notSG

\* FailRetry and FailOver, after the loop: err is connectErr if it was nil,
\* the breaker is told, Call returns err.
SGLoopExit ==
  /\ sg.pc = "loop"
  /\ sg.retries = 0
  /\ LET e == IF sg.err = NilErr THEN sg.connectErr ELSE sg.err
         h == [hist EXCEPT !.ret = e]
     IN /\ SetPool(Observe(Pool, sg.provider, e))
        /\ sg' = [sg EXCEPT !.pc = "done", !.err = e]
        /\ hist' = h
        /\ shadow' = ShadowAfter(h, e)
  /\ UNCHANGED <<option, servers, now>>
  /\ UNCHANGED notSG

\* FailFast and FailSafe (the default branch): the call on rpcClient, a nil
\* interface when selectClient failed (the method call panics); removeClient
\* unless the error is a ServiceError; the breaker is told; Call returns.
SGDefaultCall ==
  /\ sg.pc = "call"
  /\ IF sg.rpcClient = 0
     THEN /\ sg' = [sg EXCEPT !.pc = "panic"]
          /\ UNCHANGED <<clients, breakers, rpc, env, hist, shadow>>
     ELSE LET out == CallOutcome(Pool, sg.rpcClient)
              s1 == IF EvictsClient(out.err)
                    THEN RemoveClient(out.st, sg.provider, sg.rpcClient) ELSE out.st
              e == Swallow(option.FailMode, out.err)
              h == [Attempted(hist, sg.rpcClient, out) EXCEPT !.ret = e]
          IN /\ SetPool(Observe(s1, sg.provider, e))
             /\ sg' = [sg EXCEPT !.pc = "done", !.err = e]
             /\ hist' = h
             /\ shadow' = ShadowAfter(h, e)
  /\ UNCHANGED <<option, servers, now>>
  /\ UNCHANGED notSG

\* Time passes.  Only the breakers read the clock, so it is left to stand
\* when none is configured.
Tick ==
  /\ sg.pc # "panic"
  /\ BreakerConfigured
  /\ now < MaxTime
  /\ now' = now + 1
  /\ UNCHANGED <<option, servers, clients, breakers, rpc, env, sg, hist, shadow>>
  /\ UNCHANGED notSG

\* The governance client is constructed with its options and the
\* registry's provider list, against providers of any behaviour.
SGInit ==
  /\ option \in [FailMode : FailModes, Retries : 0..MaxRetries, Breaker : BOOLEAN]
  /\ servers \in {{}, {"tcp@a"}, Providers}
  /\ env \in [Providers -> Behaviours]
  /\ \A p \in Providers \ servers : env[p] = Healthy
  /\ clients = << >>
  /\ breakers = << >>
  /\ rpc = << >>
  /\ now = 0
  /\ sg = SGIdle
  /\ hist = NoHist
  /\ shadow = [p \in Providers |-> NewDefaultCircuitBreaker]

InitSG == SPInit /\ SGInit /\ HBQuiet /\ ExtQuiet

NextSG ==
  \/ SGCallBegin
  \/ SGLoopCall
  \/ SGLoopAcquire
  \/ SGLoopExit
  \/ SGDefaultCall
  \/ Tick

SpecSG == InitSG /\ [][NextSG]_vars

NextSP ==
  \/ \E k \in Calls :
       \/ CallBegin(k)
       \/ SendWrite(k)
       \/ SendFailDone(k)
       \/ CtxDone(k)
       \/ CallSelectDone(k)
       \/ CallTimeout(k)
       \/ CallSetTimeoutErr(k)
       \/ CallReturn(k)
  \/ InputDecode
  \/ InputDecodeError
  \/ InputResult
  \/ InputSignal
  \/ CloseBegin
  \/ CloseVisit
  \/ CloseSetErr
  \/ CloseSignal
  \/ CloseEnd

SpecSP == InitSP /\ [][NextSP]_vars

(***************************************************************************)
(* sgClient.heartbeat: on every tick of its ticker the task ranges over    *)
(* the pooled clients and makes a heartbeat Call (empty service method,    *)
(* context.Background()) on each, one after the other.                     *)
(***************************************************************************)
HeartbeatDegradeThreshold == 1
\* The miss counter is an int; the model stops counting one past the
\* threshold, where nothing more depends on it.
MaxMiss == HeartbeatDegradeThreshold + 1

\* A provider answers heartbeats, or leaves them unanswered with the
\* connection open, or its connection fails the write of the request.
HBBehaviours == {"answer", "silent", "broken"}

\* send, for call.ServiceMethod = "": a heartbeat frame with empty service
\* and method names.
HeartbeatRequest == [Seq |-> 1, MessageType |-> MessageTypeHeartbeat,
                     ServiceName |-> "", MethodName |-> "", Error |-> ""]

\* The server's answer to a heartbeat.  serveTransport's Clone shares the
\* request's header with the response, so when process reads
\* request.MessageType it is Response already: the heartbeat branch is
\* passed over and the empty service name is looked up and not found.
HeartbeatResponse(req) == [req EXCEPT !.MessageType = MessageTypeResponse,
                                      !.Error = "can not find service"]

\* input: have := response.ServiceName + "." + response.MethodName.
Have(r) == r.ServiceName \o "." \o r.MethodName

\* What simpleClient.Call returns to the heartbeat task when the response r
\* to its heartbeat reaches input, the Call's service method being "":
\* log.Fatalf if the response is not of type heartbeat and have # want;
\* nothing (the Call stays pending) if it is of type heartbeat; else the
\* Call completes.
HeartbeatResult(r) ==
  IF r.MessageType = MessageTypeHeartbeat THEN "pending"
  ELSE IF Have(r) # "" THEN "fatal"
  ELSE "done"

\* What the heartbeat task leaves alone.
hbFrame == <<seq, pendingCalls, shutdown, call, wire, inputPc, response, inputCall, closeLeft, sgVars, extVars>>

HBInit ==
  /\ option = [FailMode |-> FailFast, Retries |-> 0, Breaker |-> FALSE]
  /\ servers = Providers
  /\ clients = [p \in Providers |-> IF p = "tcp@a" THEN 1 ELSE 2]
  /\ rpc = <<[key |-> "tcp@a", shutdown |-> FALSE], [key |-> "tcp@b", shutdown |-> FALSE]>>
  /\ breakers = << >>
  /\ env = [p \in Providers |-> Healthy]
  /\ now = 0
  /\ sg = SGIdle
  /\ hist = NoHist
  /\ shadow = [p \in Providers |-> NewDefaultCircuitBreaker]
  /\ degraded = {}
  /\ hbFail = << >>
  /\ hb = [HBIdle EXCEPT !.pc = "tick"]
  /\ hbEnv \in [Providers -> HBBehaviours]

InitHB == SPInit /\ HBInit /\ ExtQuiet

\* for range t.C: a tick; c.clients.Range begins.
HBTick ==
  /\ ~fatal
  /\ hb.pc = "tick"
  /\ hb' = [hb EXCEPT !.pc = "range", !.left = DOMAIN clients]
  /\ UNCHANGED <<degraded, hbFail, hbEnv, fatal>>
  /\ UNCHANGED hbFrame

\* Range calls the function with the next pooled client, or ends.
HBRange ==
  /\ ~fatal
  /\ hb.pc = "range"
  /\ IF hb.left \cap DOMAIN clients = {}
     THEN hb' = [hb EXCEPT !.pc = "tick", !.left = {}, !.key = NoProvider]
     ELSE \E key \in hb.left \cap DOMAIN clients :
            hb' = [hb EXCEPT !.pc = "call", !.key = key, !.left = @ \ {key}]
  /\ UNCHANGED <<degraded, hbFail, hbEnv, fatal>>
  /\ UNCHANGED hbFrame

\* value.(RPCClient).Call(context.Background(), "", "", nil) when the write
\* of the request fails: send sets the error and signals, Call returns it.
HBCallWriteError ==
  /\ ~fatal
  /\ hb.pc = "call"
  /\ hbEnv[hb.key] = "broken"
  /\ hb' = [hb EXCEPT !.pc = "count", !.err = ErrWrite]
  /\ UNCHANGED <<degraded, hbFail, hbEnv, fatal>>
  /\ UNCHANGED hbFrame

\* The Call when the provider answers: input handles the response.  While
\* no response comes the Call waits: its context is never done.
HBCallAnswered ==
  /\ ~fatal
  /\ hb.pc = "call"
  /\ hbEnv[hb.key] = "answer"
  /\ LET res == HeartbeatResult(HeartbeatResponse(HeartbeatRequest))
     IN /\ res # "pending"
        /\ IF res = "fatal"
           THEN fatal' = TRUE /\ UNCHANGED hb
           ELSE hb' = [hb EXCEPT !.pc = "count", !.err = NilErr] /\ UNCHANGED fatal
  /\ UNCHANGED <<degraded, hbFail, hbEnv>>
  /\ UNCHANGED hbFrame

\* Under c.mu: count the miss, or reset the counter and delete
\* provider_degrade from the matching entries of c.servers.
HBCount ==
  /\ ~fatal
  /\ hb.pc = "count"
  /\ IF hb.err # NilErr
     THEN /\ hbFail' = Store(hbFail, hb.key,
                             IF hb.key \in DOMAIN hbFail
                             THEN (IF hbFail[hb.key] < MaxMiss THEN hbFail[hb.key] + 1
                                   ELSE MaxMiss)
                             ELSE 1)
          /\ UNCHANGED degraded
     ELSE /\ hbFail' = Store(hbFail, hb.key, 0)
          /\ degraded' = degraded \ {hb.key}
  /\ hb' = [hb EXCEPT !.pc = "degrade"]
  /\ UNCHANGED <<hbEnv, fatal>>
  /\ UNCHANGED hbFrame

\* if c.clientsHeartbeatFail[key] > c.option.HeartbeatDegradeThreshold:
\* set provider_degrade on the matching entries of c.servers.
HBDegrade ==
  /\ ~fatal
  /\ hb.pc = "degrade"
  /\ degraded' = IF hbFail[hb.key] > HeartbeatDegradeThreshold
                 THEN degraded \cup ({hb.key} \cap servers) ELSE degraded
  /\ hb' = [hb EXCEPT !.pc = "range", !.err = NilErr]
  /\ UNCHANGED <<hbFail, hbEnv, fatal>>
  /\ UNCHANGED hbFrame

\* A provider changes the way it treats heartbeats.
HBEnvChange ==
  /\ ~fatal
  /\ \E p \in Providers, b \in HBBehaviours :
       /\ hbEnv[p] # b
       /\ hbEnv' = [hbEnv EXCEPT ![p] = b]
  /\ UNCHANGED <<degraded, hbFail, hb, fatal>>
  /\ UNCHANGED hbFrame

HBTask == HBTick \/ HBRange \/ HBCallWriteError \/ HBCallAnswered \/ HBCount \/ HBDegrade

NextHB ==
  \/ HBTick
  \/ HBRange
  \/ HBCallWriteError
  \/ HBCallAnswered
  \/ HBCount
  \/ HBDegrade
  \/ HBEnvChange

\* The ticker keeps ticking and the task is scheduled: a step of the task
\* that is possible again and again is taken.
SpecHB == InitHB /\ [][NextHB]_vars /\ SF_vars(HBTask)

(***************************************************************************)
(* The in-memory registry and the governance client's watch task.          *)
(* Register and Unregister change the registry's provider list and start a *)
(* goroutine that offers one event to the watcher; the watch task takes an *)
(* event from the watcher and stores its providers as the cached list.     *)
(***************************************************************************)
MaxRegOps == 3

\* The providers a Register or Unregister call is given (variadic).
RegArgs == {<<p>> : p \in Providers} \cup {<<p, q>> : p \in Providers, q \in Providers}

Elems(list) == {list[i] : i \in DOMAIN list}
RemoveAt(list, i) == SubSeq(list, 1, i - 1) \o SubSeq(list, i + 1, Len(list))

\* Register: the arguments whose key the list does not hold yet, appended.
providers2Register(list, args) ==
  LET exist(p) == \E i \in DOMAIN list : list[i] = p
      fresh(p) == ~exist(p)
  IN SelectSeq(args, fresh)

\* Unregister: remain starts true and is cleared by every argument whose key
\* differs from the entry's.
newList(list, args) ==
  LET remain(p) == \A i \in DOMAIN args : ~(p # args[i])
  IN SelectSeq(list, remain)

GetServiceList == regProviders

rgFrame == <<spVars, option, clients, breakers, rpc, env, now, sg, hist, shadow, hbVars, clVars, svVars, prVars, fnVars>>

\* NewSGClient: the cached list starts as GetServiceList, then the watcher is
\* created and the watch task started.
RGInit ==
  /\ regProviders \in {<< >>, <<"tcp@a">>, <<"tcp@a", "tcp@b">>}
  /\ servers = Elems(GetServiceList)
  /\ regEvents = << >>
  /\ regOps = 0
  /\ watch = WatchIdle
  /\ option = [FailMode |-> FailFast, Retries |-> 0, Breaker |-> FALSE]
  /\ clients = << >>
  /\ breakers = << >>
  /\ rpc = << >>
  /\ env = [p \in Providers |-> Healthy]
  /\ now = 0
  /\ sg = SGIdle
  /\ hist = NoHist
  /\ shadow = [p \in Providers |-> NewDefaultCircuitBreaker]

InitRG == SPInit /\ RGInit /\ HBQuiet /\ CLQuiet /\ SVQuiet /\ PRQuiet /\ FNQuiet

\* Registry.Register: the event goroutine is started with the call's
\* arguments, then the new providers are appended.
Register ==
  /\ regOps < MaxRegOps
  /\ \E args \in RegArgs :
       /\ regEvents' = Append(regEvents, args)
       /\ regProviders' = regProviders \o providers2Register(regProviders, args)
  /\ regOps' = regOps + 1
  /\ UNCHANGED <<servers, watch, rgFrame>>

\* Registry.Unregister: the event goroutine is started with the call's
\* arguments, then the list is filtered.
Unregister ==
  /\ regOps < MaxRegOps
  /\ \E args \in RegArgs :
       /\ regEvents' = Append(regEvents, args)
       /\ regProviders' = newList(regProviders, args)
  /\ regOps' = regOps + 1
  /\ UNCHANGED <<servers, watch, rgFrame>>

\* sendWatcherEvent, `case w.res <- event`, met by Watcher.Next in the watch
\* task: the channel is unbuffered, so the send needs the task to be in Next.
sendWatcherEvent ==
  /\ watch.pc = "next"
  /\ \E i \in DOMAIN regEvents :
       /\ watch' = [pc |-> "store", event |-> regEvents[i]]
       /\ regEvents' = RemoveAt(regEvents, i)
  /\ UNCHANGED <<regProviders, regOps, servers, rgFrame>>

\* sendWatcherEvent, `case <-time.After(timeout)`: the watch task was not in
\* Next for the whole timeout and the event is given up.
sendWatcherTimeout ==
  /\ watch.pc = "store"
  /\ \E i \in DOMAIN regEvents : regEvents' = RemoveAt(regEvents, i)
  /\ UNCHANGED <<regProviders, regOps, servers, watch, rgFrame>>

\* watchService: c.servers = event.Providers.
watchService ==
  /\ watch.pc = "store"
  /\ servers' = Elems(watch.event)
  /\ watch' = WatchIdle
  /\ UNCHANGED <<regProviders, regEvents, regOps, rgFrame>>

NextRG ==
  \/ Register
  \/ Unregister
  \/ sendWatcherEvent
  \/ sendWatcherTimeout
  \/ watchService

SpecRG == InitRG /\ [][NextRG]_vars

(***************************************************************************)
(* Close of the governance client, running beside a task that calls        *)
(* sgClient.Call.  Call does not read the shutdown flag (Go does), and     *)
(* getclient does not take the mutex Close holds.                          *)
(***************************************************************************)
clFrame == <<spVars, option, servers, env, now, sg, hist, shadow, hbVars, rgVars, svVars, prVars, fnVars>>

\* The providers healthy or answering with a service error; the FailFast
\* and FailSafe modes, whose Call is selectClient and one call.
CLInit ==
  /\ option \in [FailMode : {FailFast, FailSafe}, Retries : {0}, Breaker : BOOLEAN]
  /\ servers \in {{"tcp@a"}, Providers}
  /\ env \in [Providers -> {Healthy} \cup {b \in Behaviours : b.kind = "service"}]
  /\ \A p \in Providers \ servers : env[p] = Healthy
  /\ clients = << >>
  /\ breakers = << >>
  /\ rpc = << >>
  /\ now = 0
  /\ sg = SGIdle
  /\ hist = NoHist
  /\ shadow = [p \in Providers |-> NewDefaultCircuitBreaker]
  /\ sgShutdown = FALSE
  /\ sgClose = CloseIdle

InitCL == SPInit /\ CLInit /\ HBQuiet /\ RGQuiet /\ SVQuiet /\ PRQuiet /\ FNQuiet

\* sgClient.Close: c.shutdown = true, c.mu.Lock(), and Range begins over the
\* entries the pool holds.
SGCloseBegin ==
  /\ sgClose.pc = "idle"
  /\ sgShutdown' = TRUE
  /\ sgClose' = [pc |-> "range", left |-> DOMAIN clients,
                 pooled |-> {clients[k] : k \in DOMAIN clients}]
  /\ UNCHANGED <<clients, breakers, rpc, clFrame>>

\* One call of Range's function: removeClient on an entry of the pool.
\* Range visits every key that was present when it began and is present
\* still; a key stored meanwhile is visited or not.
SGCloseVisit ==
  /\ sgClose.pc = "range"
  /\ \E key \in DOMAIN clients :
       /\ SetPool(RemoveClient(Pool, key, clients[key]))
       /\ sgClose' = [sgClose EXCEPT !.left = @ \ {key}]
  /\ UNCHANGED <<sgShutdown, clFrame>>

\* Range is over, c.mu.Unlock(), the watcher is closed in a goroutine and
\* Close returns nil.
SGCloseEnd ==
  /\ sgClose.pc = "range"
  /\ sgClose.left \cap DOMAIN clients = {}
  /\ sgClose' = [sgClose EXCEPT !.pc = "done", !.left = {}]
  /\ UNCHANGED <<sgShutdown, clients, breakers, rpc, clFrame>>

NextCL ==
  \/ SGCallBegin
  \/ SGDefaultCall
  \/ SGCloseBegin
  \/ SGCloseVisit
  \/ SGCloseEnd

SpecCL == InitCL /\ [][NextCL]_vars

(***************************************************************************)
(* The server: one connection served by serveTransport, a registered       *)
(* service, and a task calling Close.  A message is a pointer to a header  *)
(* and a body; the headers live in the handler's heap, so that two         *)
(* messages can share one.                                                 *)
(***************************************************************************)
MaxFrames == 2

StatusOK == "ok"
StatusError == "error"

\* Serialize tags: the server's own, and one the codecs table does not hold.
MessagePackType == "messagepack"
UnknownSerializeType == "unknown"
\* The tags of the codecs table (gob, json, protobuf, messagepack).
codecs == {"gob", "json", "protobuf", MessagePackType}
NilCodec == "nil"
GetCodec(st) == IF st \in codecs THEN st ELSE NilCodec

\* The registered service: Arith, with a method that succeeds, one that
\* returns an error for a zero divisor, and one that never returns.
serviceMap == ("Arith" :> {"Add", "Divide", "Wait"})
ArgBodies == {"7,0", "garbage"}
CodecDecodes(data) == data # "garbage"
DecodeErrorText == "msgpack: invalid code"
MethodCall(mname, data) ==
  IF mname = "Wait" THEN [kind |-> "hang", msg |-> "", data |-> ""]
  ELSE IF mname = "Divide" /\ data = "7,0"
  THEN [kind |-> "error", msg |-> "divided by 0", data |-> ""]
  ELSE [kind |-> "reply", msg |-> "", data |-> "reply"]

Header(seqno, mt, st, sname, mname) ==
  [Seq |-> seqno, MessageType |-> mt, SerializeType |-> st, StatusCode |-> StatusOK,
   ServiceName |-> sname, MethodName |-> mname, Error |-> ""]
ZeroHeader == Header(0, MessageTypeRequest, MessagePackType, "", "")

\* The heartbeat frame of simpleClient.send: no service, no method, and the
\* encoding of a nil argument as its body.
HeartbeatFrame ==
  [MessageType |-> MessageTypeHeartbeat, SerializeType |-> MessagePackType,
   ServiceName |-> "", MethodName |-> "", Data |-> "nil"]

\* The request frames a client can send, but for the sequence number.
RequestKinds ==
  [MessageType : {MessageTypeRequest, MessageTypeHeartbeat},
   SerializeType : {MessagePackType, UnknownSerializeType},
   ServiceName : {"Arith", "Nope"},
   MethodName : {"Add", "Divide", "Wait", "Nope"},
   Data : ArgBodies] \cup {HeartbeatFrame}

\* A Clone that gives the copy a header of its own, zero-valued.
CloneFresh(heap, m) ==
  [heap |-> Append(heap, ZeroHeader), msg |-> [Header |-> Len(heap) + 1, Data |-> m.Data]]

\* Message.Clone: the copy gets the header pointer and the body slice of
\* the original.
Clone(heap, m) ==
  [heap |-> heap, msg |-> [Header |-> m.Header, Data |-> m.Data]]

\* The frame EncodeMessage makes of message m: its header's fields and its body.
FrameOf(heap, m) == [Header |-> heap[m.Header], Data |-> m.Data]

\* An errorResponse that leaves the body as it is.
errorResponseKeepsBody(heap, message, err) ==
  [kind |-> "response",
   heap |-> [heap EXCEPT ![message.Header].Error = err,
                         ![message.Header].StatusCode = StatusError],
   response |-> message]

\* errorResponse: Error and StatusCode are set in the message's header and
\* the body is cut to length 0.
errorResponse(heap, message, err) ==
  [kind |-> "response",
   heap |-> [heap EXCEPT ![message.Header].Error = err,
                         ![message.Header].StatusCode = StatusError],
   response |-> [message EXCEPT !.Data = ""]]

\* SGServer.process.  The result is the response, or the method never
\* returns, or the handler panics on the nil codec.
process(heap, request, resp) ==
  LET req == heap[request.Header]
      sname == req.ServiceName
      mname == req.MethodName
      actualCodec == IF req.SerializeType # MessagePackType
                     THEN GetCodec(req.SerializeType) ELSE MessagePackType
      returns == MethodCall(mname, request.Data)
  IN IF req.MessageType = MessageTypeHeartbeat
     THEN [kind |-> "response",
           heap |-> [heap EXCEPT ![resp.Header].MessageType = MessageTypeResponse],
           response |-> resp]
     ELSE IF sname \notin DOMAIN serviceMap
     THEN errorResponse(heap, resp, "can not find service")
     ELSE IF mname \notin serviceMap[sname]
     THEN errorResponse(heap, resp, "can not find method")
     ELSE IF actualCodec = NilCodec
     THEN [kind |-> "panic", heap |-> heap, response |-> resp]
     ELSE IF ~CodecDecodes(request.Data)
     THEN errorResponse(heap, resp, "decode arg error:" \o DecodeErrorText)
     ELSE IF returns.kind = "hang"
     THEN [kind |-> "hang", heap |-> heap, response |-> resp]
     ELSE IF returns.kind = "error"
     THEN errorResponse(heap, resp, returns.msg)
     ELSE [kind |-> "response",
           heap |-> [heap EXCEPT ![resp.Header].StatusCode = StatusOK],
           response |-> [resp EXCEPT !.Data = returns.data]]

svFrame == <<spVars, sgVars, hbVars, rgVars, clVars, prVars, fnVars>>

\* The server is serving and a client has connected; it may send any frame.
SVInit ==
  /\ svShutdown = FALSE
  /\ requestInProcess = 0
  /\ svTr = "listening"
  /\ svClose = "idle"
  /\ conn = ConnIdle
  /\ svRead = 0
  /\ written = NothingWritten

InitSV == SPInit /\ SGQuiet /\ HBQuiet /\ RGQuiet /\ CLQuiet /\ SVInit /\ PRQuiet /\ FNQuiet

Crashed == conn.pc = "panic"

\* serveTransport, the head of the loop: with the shutdown flag set the
\* transport is closed and the loop goes round; otherwise DecodeMessage is
\* entered.
serveTransportTop ==
  /\ ~Crashed
  /\ conn.pc = "top"
  /\ conn' = IF svShutdown THEN [conn EXCEPT !.closed = TRUE]
             ELSE [conn EXCEPT !.pc = "decode"]
  /\ UNCHANGED <<svShutdown, requestInProcess, svTr, svClose, svRead, written>>
  /\ UNCHANGED svFrame

\* serveTransport: DecodeMessage returns the client's next frame; the
\* response is cloned from the request and its MessageType set; the
\* wrapped handler is entered and counts the request in.
serveTransportDecode ==
  /\ ~Crashed
  /\ conn.pc = "decode"
  /\ svRead < MaxFrames
  /\ \E k \in RequestKinds :
       LET h == Header(svRead + 1, k.MessageType, k.SerializeType,
                       k.ServiceName, k.MethodName)
           request == [Header |-> 1, Data |-> k.Data]
           c == Clone(<<h>>, request)
       IN conn' = [conn EXCEPT
                     !.pc = "process",
                     !.arrived = [Header |-> h, Data |-> k.Data],
                     !.heap = [c.heap EXCEPT ![c.msg.Header].MessageType = MessageTypeResponse],
                     !.request = request,
                     !.response = c.msg]
  /\ svRead' = svRead + 1
  /\ requestInProcess' = requestInProcess + 1
  /\ UNCHANGED <<svShutdown, svTr, svClose, written>>
  /\ UNCHANGED svFrame

\* serveTransport: DecodeMessage returns io.EOF, the client has closed the
\* connection; the handler returns.
serveTransportEOF ==
  /\ ~Crashed
  /\ conn.pc = "decode"
  /\ conn' = [conn EXCEPT !.pc = "returned"]
  /\ UNCHANGED <<svShutdown, requestInProcess, svTr, svClose, svRead, written>>
  /\ UNCHANGED svFrame

\* A handler that hands the request to a task of its own and goes round
\* its loop at once: the request stays in process and nothing has been
\* written when the next frame is read.
doHandleRequestAsync ==
  /\ ~Crashed
  /\ conn.pc = "process"
  /\ conn' = [ConnIdle EXCEPT !.closed = conn.closed]
  /\ UNCHANGED <<svShutdown, requestInProcess, svTr, svClose, svRead, written>>
  /\ UNCHANGED svFrame

\* doHandleRequest inside the default wrapper: process, writeResponse, and
\* the request is counted out.  Nothing happens while the method has not
\* returned; a panic ends the process.
doHandleRequest ==
  /\ ~Crashed
  /\ conn.pc = "process"
  /\ LET out == process(conn.heap, conn.request, conn.response)
     IN /\ out.kind # "hang"
        /\ IF out.kind = "panic"
           THEN /\ conn' = [conn EXCEPT !.pc = "panic"]
                /\ UNCHANGED <<requestInProcess, written>>
           ELSE /\ written' = [request |-> conn.arrived,
                               response |-> FrameOf(out.heap, out.response),
                               afterError |-> written.response # NoFrame
                                     /\ written.response.Header.StatusCode = StatusError]
                /\ requestInProcess' = requestInProcess - 1
                /\ conn' = [ConnIdle EXCEPT !.closed = conn.closed]
  /\ UNCHANGED <<svShutdown, svTr, svClose, svRead>>
  /\ UNCHANGED svFrame

\* SGServer.close: the mutex is taken and the shutdown flag set.
closeBegin ==
  /\ ~Crashed
  /\ svClose = "idle"
  /\ svShutdown' = TRUE
  /\ svClose' = "check"
  /\ UNCHANGED <<requestInProcess, svTr, conn, svRead, written>>
  /\ UNCHANGED svFrame

\* SGServer.close, the head of the loop: with no request in process the
\* loop is left, the listener closed and Close returns; otherwise the
\* select is entered.
closeCheck ==
  /\ ~Crashed
  /\ svClose = "check"
  /\ IF requestInProcess <= 0
     THEN svClose' = "done" /\ svTr' = (IF svTr = "nil" THEN "nil" ELSE "closed")
     ELSE svClose' = "select" /\ UNCHANGED svTr
  /\ UNCHANGED <<svShutdown, requestInProcess, conn, svRead, written>>
  /\ UNCHANGED svFrame

\* SGServer.close, `case <-ticker.C: break`: ShutDownWait has gone by; the
\* break leaves the select and the loop goes round.
closeTick ==
  /\ ~Crashed
  /\ svClose = "select"
  /\ svClose' = "check"
  /\ UNCHANGED <<svShutdown, requestInProcess, svTr, conn, svRead, written>>
  /\ UNCHANGED svFrame

serveTransport ==
  \/ serveTransportTop
  \/ serveTransportDecode
  \/ serveTransportEOF
  \/ doHandleRequest

close ==
  \/ closeBegin
  \/ closeCheck
  \/ closeTick

NextSV ==
  \/ serveTransportTop
  \/ serveTransportDecode
  \/ serveTransportEOF
  \/ doHandleRequest
  \/ closeBegin
  \/ closeCheck
  \/ closeTick

\* The handler and the task in Close are scheduled, and the ticker ticks.
SpecSV == InitSV /\ [][NextSV]_vars /\ WF_vars(serveTransport) /\ WF_vars(close)

(***************************************************************************)
(* The frame codec: EncodeMessage and DecodeMessage over byte sequences.   *)
(* A byte is a number in 0..255.  The header bytes are made by the         *)
(* MessagePack library, which is outside the repository; it is modelled by *)
(* an encoding of the same kind: the fields in order, every string field   *)
(* with its length before it.                                              *)
(***************************************************************************)
MaxStream == 3

MAGIC == <<171, 186>>
version == 0

\* binary.BigEndian.PutUint32(uint32(n)) and binary.BigEndian.Uint32.  The
\* lengths of the model are below 2^31, where uint32(n) is n.
PutUint32(n) ==
  <<(n \div 16777216) % 256, (n \div 65536) % 256, (n \div 256) % 256, n % 256>>
Uint32(b) == b[1] * 16777216 + b[2] * 65536 + b[3] * 256 + b[4]

\* The headers of the model: every combination of these field values.  The
\* MessageType and StatusCode are the bytes of the constants; the strings
\* and the metadata are byte sequences.
WireHeaders ==
  [Seq : {1, 2}, MessageType : {0, 1, 2}, CompressType : {0}, SerializeType : {3},
   StatusCode : {0, 1}, ServiceName : {<< >>, <<65>>}, MethodName : {<< >>, <<66, 67>>},
   Error : {<< >>, <<69>>}, MetaData : {<< >>, <<77>>}]
WireBodies == {<< >>, <<7>>, <<171, 186>>}
WireMessages == [Header : WireHeaders, Data : WireBodies]

\* The messages of the streams of several frames.
StreamMessages ==
  {m \in WireMessages : /\ m.Header.MessageType = 0
                        /\ m.Header.StatusCode = 0
                        /\ m.Header.ServiceName = <<65>>
                        /\ m.Header.MethodName = <<66, 67>>
                        /\ m.Header.Error = << >>
                        /\ m.Header.MetaData = << >>}

\* MessagePackCodec.Encode of a header.
Str(s) == <<Len(s)>> \o s
HeaderEncode(h) ==
  <<h.Seq, h.MessageType, h.CompressType, h.SerializeType, h.StatusCode>>
    \o Str(h.ServiceName) \o Str(h.MethodName) \o Str(h.Error) \o Str(h.MetaData)

\* MessagePackCodec.Decode into a header: the five one-byte fields, then
\* four strings; bytes that are missing make it fail, bytes left over are
\* not looked at.
TakeStr(b, at) ==
  IF at = 0 \/ at > Len(b) \/ at + b[at] > Len(b)
  THEN [next |-> 0, val |-> << >>]
  ELSE [next |-> at + b[at] + 1, val |-> SubSeq(b, at + 1, at + b[at])]
HeaderDecode(b) ==
  LET s1 == TakeStr(b, IF Len(b) >= 5 THEN 6 ELSE 0)
      s2 == TakeStr(b, s1.next)
      s3 == TakeStr(b, s2.next)
      s4 == TakeStr(b, s3.next)
  IN IF s4.next = 0
     THEN [ok |-> FALSE, header |-> << >>]
     ELSE [ok |-> TRUE,
           header |-> [Seq |-> b[1], MessageType |-> b[2], CompressType |-> b[3],
                       SerializeType |-> b[4], StatusCode |-> b[5],
                       ServiceName |-> s1.val, MethodName |-> s2.val,
                       Error |-> s3.val, MetaData |-> s4.val]]

\* An EncodeMessage whose totalLen leaves out the four bytes of headerLen.
EncodeMessageShort(message) ==
  LET headerBytes == HeaderEncode(message.Header)
  IN MAGIC \o <<version>> \o PutUint32(Len(headerBytes) + Len(message.Data))
       \o PutUint32(Len(headerBytes)) \o headerBytes \o message.Data

\* RPCProtocol.EncodeMessage.
EncodeMessage(message) ==
  LET first3bytes == MAGIC \o <<version>>
      headerBytes == HeaderEncode(message.Header)
      totalLen == 4 + Len(headerBytes) + Len(message.Data)
      data == first3bytes \o PutUint32(totalLen) \o PutUint32(Len(headerBytes))
                \o headerBytes \o message.Data
  IN SubSeq(data, 1, totalLen + 7)

\* A checkMagic that looks at the first byte only.
checkMagicFirst(bytes) == Len(bytes) >= 1 /\ bytes[1] = MAGIC[1]

checkMagic(bytes) == Len(bytes) >= 2 /\ bytes[1] = MAGIC[1] /\ bytes[2] = MAGIC[2]

\* io.ReadFull of n bytes from reader r: the bytes, or io.EOF when there is
\* none, or io.ErrUnexpectedEOF when there are fewer; what was there is
\* consumed.
ReadFull(r, n) ==
  IF Len(r) >= n
  THEN [err |-> "", buf |-> SubSeq(r, 1, n), rest |-> SubSeq(r, n + 1, Len(r))]
  ELSE [err |-> IF Len(r) = 0 THEN "EOF" ELSE "unexpected EOF", buf |-> r, rest |-> << >>]

NoWireMessage == [Header |-> << >>, Data |-> << >>]
DecodeFailed(e, rest) == [kind |-> "error", err |-> e, msg |-> NoWireMessage, rest |-> rest]

\* RPCProtocol.DecodeMessage on reader r: the message, or the error, or a
\* panic when the slice expression data[4 : headerLen+4] is out of range;
\* and what is left in the reader.
DecodeMessage(r) ==
  LET first3bytes == ReadFull(r, 3)
      totalLenBytes == ReadFull(first3bytes.rest, 4)
      totalLen == Uint32(totalLenBytes.buf)
      data == ReadFull(totalLenBytes.rest, totalLen)
      headerLen == Uint32(SubSeq(data.buf, 1, 4))
      header == HeaderDecode(SubSeq(data.buf, 5, headerLen + 4))
  IN IF first3bytes.err # "" THEN DecodeFailed(first3bytes.err, first3bytes.rest)
     ELSE IF ~checkMagic(SubSeq(first3bytes.buf, 1, 2))
     THEN DecodeFailed("wrong protocol", first3bytes.rest)
     ELSE IF totalLenBytes.err # "" THEN DecodeFailed(totalLenBytes.err, totalLenBytes.rest)
     ELSE IF totalLen < 4 THEN DecodeFailed("invalid total length", totalLenBytes.rest)
     ELSE IF data.err # "" THEN DecodeFailed(data.err, data.rest)
     ELSE IF headerLen + 4 > totalLen
     THEN [kind |-> "panic", err |-> "slice bounds out of range", msg |-> NoWireMessage,
           rest |-> data.rest]
     ELSE IF ~header.ok THEN DecodeFailed("msgpack: unexpected end of data", data.rest)
     ELSE [kind |-> "msg", err |-> "",
           msg |-> [Header |-> header.header,
                    Data |-> SubSeq(data.buf, headerLen + 5, totalLen)],
           rest |-> data.rest]

\* What DecodeMessage gave its caller.
Returned(out) == [kind |-> out.kind, err |-> out.err, msg |-> out.msg]

prFrame == <<spVars, sgVars, hbVars, rgVars, clVars, svVars, fnVars>>

\* One message, any of the model's, is to be encoded and decoded again.
PRInit ==
  /\ prSent \in {<<m>> : m \in WireMessages}
  /\ prStream = << >>
  /\ prGot = << >>
  /\ prTrunc = 0
  /\ prPc = "write"

InitPR == SPInit /\ SGQuiet /\ HBQuiet /\ RGQuiet /\ CLQuiet /\ SVQuiet /\ PRInit /\ FNQuiet

\* The sender encodes the message and writes the frame.
WriteOne ==
  /\ prPc = "write"
  /\ Len(prSent) = 1
  /\ prStream = << >>
  /\ prStream' = EncodeMessage(prSent[1])
  /\ prPc' = "read"
  /\ UNCHANGED <<prSent, prGot, prTrunc>>
  /\ UNCHANGED prFrame

\* The receiver calls DecodeMessage on the stream; it stops calling at the
\* first call that gives no message.
Decode ==
  /\ prPc = "read"
  /\ LET out == DecodeMessage(prStream)
     IN /\ prGot' = Append(prGot, Returned(out))
        /\ prStream' = out.rest
        /\ prPc' = IF out.kind = "msg" THEN "read" ELSE "done"
  /\ UNCHANGED <<prSent, prTrunc>>
  /\ UNCHANGED prFrame

NextPR ==
  \/ WriteOne
  \/ Decode

SpecPR == InitPR /\ [][NextPR]_vars

(***************************************************************************)
(* A stream of several frames, one of which may have lost its last byte.   *)
(***************************************************************************)
FSInit ==
  /\ prSent = << >>
  /\ prStream = << >>
  /\ prGot = << >>
  /\ prTrunc = 0
  /\ prPc = "write"

InitFS == SPInit /\ SGQuiet /\ HBQuiet /\ RGQuiet /\ CLQuiet /\ SVQuiet /\ FSInit /\ FNQuiet

\* One more frame is appended to the stream.
WriteFrame ==
  /\ prPc = "write"
  /\ Len(prSent) < MaxStream
  /\ \E m \in StreamMessages :
       /\ prSent' = Append(prSent, m)
       /\ prStream' = prStream \o EncodeMessage(m)
  /\ UNCHANGED <<prGot, prTrunc, prPc>>
  /\ UNCHANGED prFrame

\* One more frame is appended to the stream, without its last byte.
WriteTruncated ==
  /\ prPc = "write"
  /\ Len(prSent) < MaxStream
  /\ prTrunc = 0
  /\ \E m \in StreamMessages :
       LET frame == EncodeMessage(m)
       IN /\ prSent' = Append(prSent, m)
          /\ prStream' = prStream \o SubSeq(frame, 1, Len(frame) - 1)
  /\ prTrunc' = Len(prSent) + 1
  /\ UNCHANGED <<prGot, prPc>>
  /\ UNCHANGED prFrame

\* The stream is complete and the receiver starts.
EndOfStream ==
  /\ prPc = "write"
  /\ prPc' = "read"
  /\ UNCHANGED <<prSent, prStream, prGot, prTrunc>>
  /\ UNCHANGED prFrame

NextFS ==
  \/ WriteFrame
  \/ WriteTruncated
  \/ EndOfStream
  \/ Decode

SpecFS == InitFS /\ [][NextFS]_vars

(***************************************************************************)
(* A frame damaged on the way: one byte replaced, or the stream cut short. *)
(***************************************************************************)
\* The values a damaged byte takes.  The most significant byte of a length
\* stays below 128, where int(uint32) is the same number on every build.
DamagedBytes == {0, 1, 4, 100}

CRInit ==
  /\ prSent \in {<<m>> : m \in StreamMessages}
  /\ prStream = << >>
  /\ prGot = << >>
  /\ prTrunc = 0
  /\ prPc = "write"

InitCR == SPInit /\ SGQuiet /\ HBQuiet /\ RGQuiet /\ CLQuiet /\ SVQuiet /\ CRInit /\ FNQuiet

\* One byte of the frame arrives with another value.
Corrupt ==
  /\ prPc = "read"
  /\ prGot = << >>
  /\ prTrunc = 0
  /\ \E i \in 1..Len(prStream), v \in DamagedBytes :
       /\ prStream[i] # v
       /\ prStream' = [prStream EXCEPT ![i] = v]
       /\ prTrunc' = i
  /\ UNCHANGED <<prSent, prGot, prPc>>
  /\ UNCHANGED prFrame

\* The connection ends before the whole frame has arrived.
Truncate ==
  /\ prPc = "read"
  /\ prGot = << >>
  /\ prTrunc = 0
  /\ \E n \in 0..(Len(prStream) - 1) :
       /\ prStream' = SubSeq(prStream, 1, n)
       /\ prTrunc' = n + 1
  /\ UNCHANGED <<prSent, prGot, prPc>>
  /\ UNCHANGED prFrame

NextCR ==
  \/ WriteOne
  \/ Corrupt
  \/ Truncate
  \/ Decode

SpecCR == InitCR /\ [][NextCR]_vars

(***************************************************************************)
(* sgClient.Go on a governance client with one provider: the selected      *)
(* per-provider client's Go is called through the interceptors, beside     *)
(* Calls made on the same per-provider client.                             *)
(***************************************************************************)
\* ctx.Value(protocol.RequestSeqKey) of the context Go is called with: 0
\* stands for nil (no value under the key), another number for a uint64
\* the caller has put there itself.
CtxSeqValues == 0..NumCalls

\* sgClient.Go: the shutdown check, selectClient, and wrapGo(client.Go);
\* wrapContext adds the timeout and the metadata and nothing under
\* RequestSeqKey.  simpleClient.Go makes the Call and calls send, whose
\* first statement is the type assertion ctx.Value(RequestSeqKey).(uint64):
\* it panics on nil, and otherwise the Call is stored under the context's
\* number.  The counter c.seq is not touched.
Go(k) ==
  /\ ~fatal
  /\ ~sgShutdown
  /\ call[k].pc = "idle"
  /\ \A j \in Calls : j < k => call[j].pc # "idle"
  /\ \E v \in CtxSeqValues :
       IF v = 0
       THEN /\ call' = [call EXCEPT ![k].pc = "panic", ![k].byGo = TRUE,
                                    ![k].ServiceMethod = MethodOf(k), ![k].Args = k]
            /\ fatal' = TRUE
            /\ UNCHANGED pendingCalls
       ELSE /\ call' = [call EXCEPT ![k].pc = "write", ![k].byGo = TRUE, ![k].seq = v,
                                    ![k].ServiceMethod = MethodOf(k), ![k].Args = k]
            /\ pendingCalls' = Store(pendingCalls, v, k)
            /\ UNCHANGED fatal
  /\ UNCHANGED <<seq, shutdown, wire, inputPc, response, inputCall, closeLeft>>
  /\ UNCHANGED notSP

InitGO == SPInit /\ SGQuiet /\ HBQuiet /\ ExtQuiet

NextGO ==
  \/ \E k \in Calls :
       \/ Go(k)
       \/ CallBegin(k)
       \/ SendWrite(k)
       \/ SendFailDone(k)
       \/ CallSelectDone(k)
       \/ CallReturn(k)
  \/ InputDecode
  \/ InputResult
  \/ InputSignal

SpecGO == InitGO /\ [][NextGO]_vars

(***************************************************************************)
(* The selectors: Next of the random, the hash and the appointed selector  *)
(* on a provider list, with the filters of the SelectOption.               *)
(***************************************************************************)
\* The filters a SelectOption can hold: DegradeProviderFilter() and
\* TaggedProviderFilter(tags) with tags = {color: blue}.
FilterLists == {<< >>, <<"degrade">>, <<"tagged">>, <<"degrade", "tagged">>}
ProviderLists ==
  {<< >>} \cup {<<p>> : p \in ProviderRecords}
          \cup {<<p, q>> : p \in ProviderRecords, q \in ProviderRecords}

\* DegradeProviderFilter on a provider record: the key is looked up in
\* Meta, and a nil map has no key.
DegradeFilter(p) == ~p.Meta.degrade

\* TaggedProviderFilter(tags) with a non-nil tags: a provider with a nil
\* Meta passes, one without tags does not, the others when their tag is
\* the one asked for.
TaggedProviderFilter(p) ==
  IF p.Meta.nil THEN TRUE
  ELSE IF p.Meta.color = "" THEN FALSE
  ELSE p.Meta.color = "blue"

ApplyFilter(f, p) == IF f = "degrade" THEN DegradeFilter(p) ELSE TaggedProviderFilter(p)

\* combineFilter: every filter in turn, false at the first that fails.
combineFilter(filters, p) == \A i \in DOMAIN filters : ApplyFilter(filters[i], p)

\* The list Next builds: the providers that pass, in order.
Filtered(a) == SelectSeq(a.providers, LAMBDA p : combineFilter(a.Filters, p))

Return(rp, err) == [kind |-> "return", rp |-> rp, err |-> err]

\* RandomSelector.Next: the error on an empty list, else list[rand.Intn(len(list))].
RandomNext(a) ==
  IF Len(Filtered(a)) = 0
  THEN {Return(ZeroProvider, ErrEmptyProviderList)}
  ELSE {Return(Filtered(a)[idx], NilErr) : idx \in 1..Len(Filtered(a))}

\* HashSelector.Next: the error on an empty list; otherwise a bare return,
\* with rp and err as they were declared.
HashNext(a) ==
  IF Len(Filtered(a)) = 0
  THEN {Return(ZeroProvider, ErrEmptyProviderList)}
  ELSE {Return(ZeroProvider, NilErr)}

\* AppointedSelector.Next: errors for an empty metadata map and an empty
\* server string; the type assertion meta["server"].(string) panics when
\* the key is missing; then the first provider with that address that
\* passes the filters, or rp as it was declared.
Appointed(a) ==
  SelectSeq(a.providers, LAMBDA p : p.Addr = a.meta.server /\ combineFilter(a.Filters, p))
AppointedNext(a) ==
  IF a.meta.entries = 0 THEN {Return(ZeroProvider, NewError("meta is nil"))}
  ELSE IF ~a.meta.hasServer THEN {[kind |-> "panic", rp |-> ZeroProvider, err |-> NilErr]}
  ELSE IF a.meta.server = "" THEN {Return(ZeroProvider, NewError("meta server is nil"))}
  ELSE IF Len(Appointed(a)) = 0 THEN {Return(ZeroProvider, NilErr)}
  ELSE {Return(Appointed(a)[1], NilErr)}

slFrame == <<spVars, sgVars, hbVars, rgVars, clVars, svVars, prVars, svcMap, regRet, wc, xVars>>

\* Any selector is about to be called with any list, filters and metadata.
SLInit ==
  /\ slArgs \in [selector : {"random", "hash", "appointed"}, providers : ProviderLists,
                 Filters : FilterLists, meta : CtxMetas]
  /\ slArgs.selector # "appointed" => slArgs.meta = NoCtxMeta
  /\ slRet = NoRet
  /\ svcMap = << >>
  /\ regRet = NoRegister
  /\ wc = NoWrap
  /\ XQuiet

InitSL == SPInit /\ SGQuiet /\ HBQuiet /\ RGQuiet /\ CLQuiet /\ SVQuiet /\ PRQuiet /\ SLInit

RandomSelectorNext ==
  /\ slArgs.selector = "random"
  /\ slRet = NoRet
  /\ slRet' \in RandomNext(slArgs)
  /\ UNCHANGED slArgs
  /\ UNCHANGED slFrame

HashSelectorNext ==
  /\ slArgs.selector = "hash"
  /\ slRet = NoRet
  /\ slRet' \in HashNext(slArgs)
  /\ UNCHANGED slArgs
  /\ UNCHANGED slFrame

AppointedSelectorNext ==
  /\ slArgs.selector = "appointed"
  /\ slRet = NoRet
  /\ slRet' \in AppointedNext(slArgs)
  /\ UNCHANGED slArgs
  /\ UNCHANGED slFrame

NextSL ==
  \/ RandomSelectorNext
  \/ HashSelectorNext
  \/ AppointedSelectorNext

SpecSL == InitSL /\ [][NextSL]_vars

(***************************************************************************)
(* SGServer.Register: the methods of the receiver's type that have the     *)
(* shape of a remote method are recorded under the type's name.            *)
(***************************************************************************)
MaxRegisters == 2

\* What reflection tells of a method: whether it is exported (PkgPath is
\* empty), the number of ins (receiver included) and of outs, whether the
\* first parameter implements context.Context, whether the argument and the
\* reply types are exported or builtin, whether the reply type is a
\* pointer, and whether the result type is error.
GoodMethod == [exported |-> TRUE, NumIn |-> 4, ctxIsContext |-> TRUE, argExported |-> TRUE,
               replyPtr |-> TRUE, replyExported |-> TRUE, NumOut |-> 1, outIsError |-> TRUE]
MethodShapes ==
  {GoodMethod,
   [GoodMethod EXCEPT !.exported = FALSE],
   [GoodMethod EXCEPT !.NumIn = 3],
   [GoodMethod EXCEPT !.ctxIsContext = FALSE],
   [GoodMethod EXCEPT !.argExported = FALSE],
   [GoodMethod EXCEPT !.replyPtr = FALSE],
   [GoodMethod EXCEPT !.replyExported = FALSE],
   [GoodMethod EXCEPT !.NumOut = 2],
   [GoodMethod EXCEPT !.outIsError = FALSE]}

\* The receiver types: a name and up to two methods.
RcvrTypes ==
  {[name |-> n, methods |-> ms] :
     n \in {"Arith", "Echo"},
     ms \in UNION {[names -> MethodShapes] : names \in {{}, {"Add"}, {"Add", "Mul"}}}}

\* suitableMethods without the check that the reply type is a pointer.
suitableMethodsAnyReply(typ) ==
  {mname \in DOMAIN typ.methods :
     LET mtype == typ.methods[mname]
     IN /\ mtype.exported
        /\ mtype.NumIn = 4
        /\ mtype.ctxIsContext
        /\ mtype.argExported
        /\ mtype.replyExported
        /\ mtype.NumOut = 1
        /\ mtype.outIsError}

\* suitableMethods: the names of the methods that pass every check.
suitableMethods(typ) ==
  {mname \in DOMAIN typ.methods :
     LET mtype == typ.methods[mname]
     IN /\ mtype.exported
        /\ mtype.NumIn = 4
        /\ mtype.ctxIsContext
        /\ mtype.argExported
        /\ mtype.replyPtr
        /\ mtype.replyExported
        /\ mtype.NumOut = 1
        /\ mtype.outIsError}

ErrNoSuitableMethods == NewError("has no exported methods of suitable type")
ErrServiceDefined == NewError("rpc: service already defined")

rsFrame == <<spVars, sgVars, hbVars, rgVars, clVars, svVars, prVars, slArgs, slRet, wc, xVars>>

RSInit ==
  /\ slArgs = NoArgs
  /\ slRet = NoRet
  /\ svcMap = << >>
  /\ regRet = NoRegister
  /\ wc = NoWrap
  /\ XQuiet

InitRS == SPInit /\ SGQuiet /\ HBQuiet /\ RGQuiet /\ CLQuiet /\ SVQuiet /\ PRQuiet /\ RSInit

\* SGServer.Register(rcvr): an error when no method is suitable; otherwise
\* serviceMap.LoadOrStore(name, srv), and an error when the name was there.
RegisterService ==
  /\ regRet.calls < MaxRegisters
  /\ \E typ \in RcvrTypes :
       LET methods == suitableMethods(typ)
       IN /\ svcMap' = IF methods = {} \/ typ.name \in DOMAIN svcMap
                       THEN svcMap
                       ELSE Store(svcMap, typ.name, methods)
          /\ regRet' = [calls |-> regRet.calls + 1, typ |-> typ, before |-> svcMap,
                        err |-> IF methods = {} THEN ErrNoSuitableMethods
                                ELSE IF typ.name \in DOMAIN svcMap THEN ErrServiceDefined
                                ELSE NilErr]
  /\ UNCHANGED rsFrame

NextRS ==
  \/ RegisterService

SpecRS == InitRS /\ [][NextRS]_vars

(***************************************************************************)
(* A heartbeat Call on a single-provider client, beside application Calls  *)
(* on the same connection; the server is up and answers every frame.       *)
(***************************************************************************)
\* simpleClient.Call(ctx, "", nil, nil), as simpleClient.heartbeat makes it:
\* the sequence number, Go, and send's pendingCalls.Store.
HeartbeatCallBegin(k) ==
  /\ ~fatal
  /\ call[k].pc = "idle"
  /\ \A j \in Calls : j < k => call[j].pc # "idle"
  /\ seq' = NextSeq(seq)
  /\ pendingCalls' = Store(pendingCalls, NextSeq(seq), k)
  /\ call' = [call EXCEPT ![k].pc = "write", ![k].seq = NextSeq(seq),
                          ![k].ServiceMethod = "", ![k].Args = 0]
  /\ UNCHANGED <<shutdown, wire, inputPc, response, inputCall, closeLeft, fatal>>
  /\ UNCHANGED notSP

InitHC == SPInit /\ SGQuiet /\ HBQuiet /\ ExtQuiet

NextHC ==
  \/ \E k \in Calls :
       \/ HeartbeatCallBegin(k)
       \/ CallBegin(k)
       \/ SendWrite(k)
       \/ SendFailDone(k)
       \/ CallSelectDone(k)
       \/ CallReturn(k)
  \/ InputDecode
  \/ InputResult
  \/ InputSignal

SpecHC == InitHC /\ [][NextHC]_vars

(***************************************************************************)
(* A Call through MetaDataWrapper: wrapContext builds the context, then    *)
(* simpleClient.Call sends the request and selects on the context and on   *)
(* the Call's channel.  Time is counted in ticks from the call.            *)
(***************************************************************************)
MaxWait == 2

\* wrapContext: the timeout is the time until the caller's deadline if
\* there is one; when it is zero and RequestTimeout is not, it is
\* RequestTimeout; context.WithTimeout(ctx, timeout) then gives the
\* deadline now + timeout (or the caller's, if that is sooner).
TimeoutOf(w) ==
  LET untilDeadline == IF w.hasDeadline THEN w.deadline - w.clock ELSE 0
  IN IF untilDeadline = 0 /\ w.RequestTimeout # 0 THEN w.RequestTimeout ELSE untilDeadline
WithTimeout(w, timeout) ==
  IF w.hasDeadline /\ w.deadline < w.clock + timeout THEN w.deadline ELSE w.clock + timeout

wcFrame == <<spVars, sgVars, hbVars, rgVars, clVars, svVars, prVars, slArgs, slRet, svcMap, regRet, xVars>>

\* The caller's context has a deadline or none, the option a RequestTimeout
\* or zero.
WCInit ==
  /\ slArgs = NoArgs
  /\ slRet = NoRet
  /\ svcMap = << >>
  /\ regRet = NoRegister
  /\ \E d \in 0..MaxWait, t \in 0..MaxWait :
       wc = [NoWrap EXCEPT !.pc = "wrap", !.hasDeadline = (d > 0), !.deadline = d,
                           !.RequestTimeout = t]
  /\ XQuiet

InitWC == SPInit /\ SGQuiet /\ HBQuiet /\ RGQuiet /\ CLQuiet /\ SVQuiet /\ PRQuiet /\ WCInit

\* MetaDataWrapper.WrapCall: wrapContext, then simpleClient.Call up to its
\* select, the request written.
wrapContext ==
  /\ wc.pc = "wrap"
  /\ wc' = [wc EXCEPT !.pc = "select", !.timeout = TimeoutOf(wc),
                      !.ctxDeadline = WithTimeout(wc, TimeoutOf(wc))]
  /\ UNCHANGED wcFrame

\* A tick of the clock while Call is in its select.
WCTick ==
  /\ wc.pc = "select"
  /\ wc.clock <= MaxWait
  /\ wc' = [wc EXCEPT !.clock = @ + 1]
  /\ UNCHANGED wcFrame

\* The response arrives, a tick or more after the request was written, and
\* input signals the Call's channel.
WCAnswer ==
  /\ wc.pc = "select"
  /\ ~wc.answered
  /\ wc.clock >= 1
  /\ wc' = [wc EXCEPT !.answered = TRUE]
  /\ UNCHANGED wcFrame

\* select, case <-ctx.Done(): the deadline of the context has come.
WCSelectCtxDone ==
  /\ wc.pc = "select"
  /\ wc.clock >= wc.ctxDeadline
  /\ wc' = [wc EXCEPT !.pc = "returned", !.ret = ErrTimeOut]
  /\ UNCHANGED wcFrame

\* select, case <-call.Done.
WCSelectCallDone ==
  /\ wc.pc = "select"
  /\ wc.answered
  /\ wc' = [wc EXCEPT !.pc = "returned", !.ret = NilErr]
  /\ UNCHANGED wcFrame

NextWC ==
  \/ wrapContext
  \/ WCTick
  \/ WCAnswer
  \/ WCSelectCtxDone
  \/ WCSelectCallDone

SpecWC == InitWC /\ [][NextWC]_vars

(***************************************************************************)
(* SGServer.serve: Listen and the accept loop, beside Close and the        *)
(* handler of the one client that connects.                                *)
(***************************************************************************)
acFrame == <<spVars, sgVars, hbVars, rgVars, clVars, prVars, slArgs, slRet, svcMap, regRet, wc, uw>>

\* Serve has been called and Close may be called at any moment; no client
\* has connected yet.
ACInit ==
  /\ SVQuiet
  /\ slArgs = NoArgs
  /\ slRet = NoRet
  /\ svcMap = << >>
  /\ regRet = NoRegister
  /\ wc = NoWrap
  /\ srv = [pc |-> "begin", ret |-> "none"]
  /\ uw = NoUnwatch

InitAC == SPInit /\ SGQuiet /\ HBQuiet /\ RGQuiet /\ CLQuiet /\ PRQuiet /\ ACInit

\* serve up to the loop: nil when the server is shut down already; the
\* listener is made and Listen called, whose error is returned.
serveListen ==
  /\ ~Crashed
  /\ srv.pc = "begin"
  /\ IF svShutdown
     THEN srv' = [pc |-> "returned", ret |-> "nil"] /\ UNCHANGED svTr
     ELSE \/ srv' = [srv EXCEPT !.pc = "top"] /\ svTr' = "listening"
          \/ srv' = [pc |-> "returned", ret |-> "listen error"] /\ svTr' = "failed"
  /\ UNCHANGED <<svShutdown, requestInProcess, svClose, conn, svRead, written>>
  /\ UNCHANGED acFrame

\* serve, the head of the loop: `if s.shutdown { continue }`, otherwise
\* Accept is entered.
serveTop ==
  /\ ~Crashed
  /\ srv.pc = "top"
  /\ srv' = IF svShutdown THEN srv ELSE [srv EXCEPT !.pc = "accept"]
  /\ UNCHANGED svVars
  /\ UNCHANGED acFrame

\* serve: Accept returns a client's connection; its handler is started and
\* the loop goes round.
serveAccept ==
  /\ ~Crashed
  /\ srv.pc = "accept"
  /\ svTr = "listening"
  /\ conn.pc = "none"
  /\ conn' = ConnIdle
  /\ srv' = [srv EXCEPT !.pc = "top"]
  /\ UNCHANGED <<svShutdown, requestInProcess, svTr, svClose, svRead, written>>
  /\ UNCHANGED acFrame

\* serve: Accept fails because the listener has been closed; nil when the
\* shutdown flag is set, the error otherwise.
serveAcceptClosed ==
  /\ ~Crashed
  /\ srv.pc = "accept"
  /\ svTr = "closed"
  /\ srv' = [pc |-> "returned",
             ret |-> IF svShutdown THEN "nil" ELSE "use of closed network connection"]
  /\ UNCHANGED svVars
  /\ UNCHANGED acFrame

\* serve: Accept fails for another reason; the error is returned.
serveAcceptError ==
  /\ ~Crashed
  /\ srv.pc = "accept"
  /\ svTr = "listening"
  /\ srv' = [pc |-> "returned", ret |-> "accept error"]
  /\ UNCHANGED svVars
  /\ UNCHANGED acFrame

\* The steps of serve that wait for nothing outside the server.
serve ==
  \/ serveListen
  \/ serveTop
  \/ serveAcceptClosed

NextAC ==
  \/ serveListen
  \/ serveTop
  \/ serveAccept
  \/ serveAcceptClosed
  \/ serveAcceptError
  \/ serveTransportTop
  \/ serveTransportDecode
  \/ serveTransportEOF
  \/ doHandleRequest
  \/ closeBegin
  \/ closeCheck
  \/ closeTick

\* Serve, the handler and Close are scheduled, and the ticker ticks.
SpecAC == InitAC /\ [][NextAC]_vars /\ WF_vars(serve) /\ WF_vars(serveTransport) /\ WF_vars(close)

(***************************************************************************)
(* sgClient.Close with its goroutine, Registry.Unwatch and Watcher.Close,  *)
(* for the in-memory, the peer-to-peer and the key-value registry.         *)
(***************************************************************************)
MaxRegistryCalls == 2

Registries == {"memory", "p2p", "kv"}

uwFrame == <<slArgs, slRet, svcMap, regRet, wc, srv>>

\* NewSGClient has called Registry.Watch and started watchService: the
\* peer-to-peer Watch returns nil and watchService returns at once; the
\* other two registries hold the watcher and watchService waits in Next.
UWInit ==
  /\ slArgs = NoArgs
  /\ slRet = NoRet
  /\ svcMap = << >>
  /\ regRet = NoRegister
  /\ wc = NoWrap
  /\ srv = NoServe
  /\ \E r \in Registries :
       uw = [NoUnwatch EXCEPT !.registry = r,
                              !.watcher = IF r = "p2p" THEN "nil" ELSE "w",
                              !.watchers = IF r = "p2p" THEN {} ELSE {"w"},
                              !.ws = IF r = "p2p" THEN "returned" ELSE "next"]

\* One healthy provider, the FailFast mode and no breaker.
InitUW ==
  /\ SPInit /\ CLInit /\ HBQuiet /\ RGQuiet /\ SVQuiet /\ PRQuiet /\ UWInit
  /\ option = [FailMode |-> FailFast, Retries |-> 0, Breaker |-> FALSE]
  /\ servers = {"tcp@a"}
  /\ env = [p \in Providers |-> Healthy]

PanicUW == uw.pc = "panic"

\* Close's goroutine calls Registry.Unwatch(c.watcher).  In memory: r.mu is
\* locked, a list without the target is built and dropped, and the
\* deferred r.mu.Lock() waits for the lock the call itself holds.
\* Peer-to-peer: nothing.  Key-value: r.watchers becomes the list without
\* the watcher.
Unwatch ==
  /\ sgClose.pc = "done"
  /\ uw.pc = "idle"
  /\ uw.registry = "memory" => uw.mu = "free"
  /\ uw' = CASE uw.registry = "memory" -> [uw EXCEPT !.mu = "held", !.pc = "deferred Lock"]
             [] uw.registry = "p2p" -> [uw EXCEPT !.pc = "close"]
             [] uw.registry = "kv" -> [uw EXCEPT !.watchers = @ \ {uw.watcher}, !.pc = "close"]
  /\ UNCHANGED <<spVars, sgVars, hbVars, rgVars, clVars, svVars, prVars, uwFrame>>

\* Close's goroutine calls c.watcher.Close(): a method call on the nil
\* interface panics; otherwise the exit channel is closed unless it is
\* closed already.
WatcherClose ==
  /\ uw.pc = "close"
  /\ uw' = IF uw.watcher = "nil"
           THEN [uw EXCEPT !.pc = "panic"]
           ELSE [uw EXCEPT !.exit = "closed", !.pc = "done"]
  /\ UNCHANGED <<spVars, sgVars, hbVars, rgVars, clVars, svVars, prVars, uwFrame>>

\* watchService: Next returns "watcher stopped" once the exit channel is
\* closed, and the loop is left.
WatcherNextStopped ==
  /\ ~PanicUW
  /\ uw.ws = "next"
  /\ uw.exit = "closed"
  /\ uw' = [uw EXCEPT !.ws = "returned"]
  /\ UNCHANGED <<spVars, sgVars, hbVars, rgVars, clVars, svVars, prVars, uwFrame>>

\* Another user of the registry calls Register, GetServiceList or Watch
\* after Close has returned; in memory each takes r.mu first.  Watch adds
\* a watcher to those the registry holds.
RegistryCall ==
  /\ ~PanicUW
  /\ sgClose.pc = "done"
  /\ uw.calls < MaxRegistryCalls
  /\ uw.registry = "memory" => uw.mu = "free"
  /\ \E op \in {"Register", "GetServiceList", "Watch"} :
       uw' = [uw EXCEPT !.calls = @ + 1,
                        !.watchers = IF op = "Watch" /\ uw.registry # "p2p"
                                     THEN @ \cup {"w2"} ELSE @]
  /\ UNCHANGED <<spVars, sgVars, hbVars, rgVars, clVars, svVars, prVars, uwFrame>>

closeWatcher ==
  \/ Unwatch
  \/ WatcherClose
  \/ WatcherNextStopped

NextUW ==
  \/ SGCallBegin
  \/ SGDefaultCall
  \/ SGCloseBegin
  \/ SGCloseVisit
  \/ SGCloseEnd
  \/ Unwatch
  \/ WatcherClose
  \/ WatcherNextStopped
  \/ RegistryCall

\* Close's goroutine and the watch task are scheduled, and the other users
\* of the registry go on calling it while they can.
SpecUW == InitUW /\ [][NextUW]_vars /\ WF_vars(closeWatcher) /\ WF_vars(RegistryCall)

(***************************************************************************)
(* Properties of the single-provider client, checked under SpecSP.         *)
(***************************************************************************)
\* C1: with several Calls in flight on one connection and the responses
\* coming in any order, a result the receive loop writes into a Call comes
\* from the response whose Seq is the Call's own, so a Call's reply output
\* is either untouched or the reply to its own argument, and a Call that
\* returns nil after its completion signal has its own reply.
C1_SeqCorrelation ==
  /\ \A k \in Calls :
       /\ call[k].fromSeq # 0 => call[k].fromSeq = call[k].seq
       /\ call[k].Reply \in {ZeroReply, ReplyData(call[k].Args)}
       /\ (call[k].pc = "returned" /\ call[k].via = "done" /\ call[k].ret = NilErr)
            => call[k].Reply = ReplyData(call[k].Args)
  /\ inputPc \in {"result", "signal"} => response.Seq = call[inputCall].seq

\* Two Calls in flight, the second answered first: it has returned with its
\* own reply while the first still waits for its response.
C1_Witness ==
  /\ call[2].pc = "returned"
  /\ call[2].ret = NilErr
  /\ call[2].Reply = ReplyData(2)
  /\ call[1].pc = "wait"
  /\ call[1].fromSeq = 0
  /\ Request(1) \in wire

\* C2: a Call that returned because its context was done returned the
\* timeout error, has no entry in the pending table, and no later step (a
\* late response for its Seq) changes its reply output or its error.
C2_LateResponseDropped ==
  [][\A k \in Calls :
       (call[k].pc = "returned" /\ call[k].via = "ctx")
         => /\ call[k].ret = ErrTimeOut
            /\ call[k].seq \notin DOMAIN pendingCalls
            /\ call'[k].Reply = call[k].Reply
            /\ call'[k].Error = call[k].Error]_vars

\* C3: once the receive loop has ended after a frame decode error, the
\* shutdown flag is set, the pending table is empty, and every Call that
\* was pending with its request written when the error came, and completed
\* by its completion signal, returned the shutdown error.
C3_DecodeErrorFailsPending ==
  inputPc = "closed"
    => /\ shutdown
       /\ pendingCalls = << >>
       /\ \A k \in Calls :
            (call[k].pendingAtErr /\ call[k].pc = "returned" /\ call[k].via = "done")
              => call[k].ret = ErrorShutDown

(***************************************************************************)
(* Properties of the governance client, checked under SpecSG.              *)
(***************************************************************************)
Done == sg.pc = "done"
LastAttempt == hist.attempts[Len(hist.attempts)]
TransportKinds == {"write", "closed"}

\* C4: under FailRetry with Retries = N and no breaker, when the provider
\* of the first attempt fails at least one and at most N attempts with a
\* transport error and answers after that, Call returns nil.
C4_FailRetryRecovers ==
  (/\ Done
   /\ option.FailMode = FailRetry
   /\ ~BreakerConfigured
   /\ Len(hist.attempts) > 0
   /\ hist.env0[hist.attempts[1].p].kind \in TransportKinds
   /\ hist.env0[hist.attempts[1].p].left \in 1..option.Retries)
    => hist.ret = NilErr

\* One provider fails every attempt with a transport error, the other is
\* healthy.
OneFailsOneHealthy(e) ==
  \E p \in Providers :
    /\ e[p].kind \in TransportKinds
    /\ e[p].left = Always
    /\ \A q \in Providers \ {p} : e[q] = Healthy

\* C5: under FailOver with Retries = N and no breaker, with one provider
\* that always fails and one that is healthy, a Call returns an error only
\* after it has made at least N attempts, all on the failing provider, and
\* it returns nil if an attempt landed on the healthy one.
C5_FailOverReselects ==
  (/\ Done
   /\ option.FailMode = FailOver
   /\ ~BreakerConfigured
   /\ servers = Providers
   /\ OneFailsOneHealthy(hist.env0))
    => /\ hist.ret # NilErr
            => /\ Len(hist.attempts) >= option.Retries
               /\ \A i \in DOMAIN hist.attempts : hist.env0[hist.attempts[i].p] # Healthy
       /\ (\E i \in DOMAIN hist.attempts : hist.env0[hist.attempts[i].p] = Healthy)
            => hist.ret = NilErr

\* C6: under FailSafe a Call whose attempt on the selected provider failed
\* (transport error, timeout or service error) returns nil.
C6_FailSafeSwallows ==
  (/\ Done
   /\ option.FailMode = FailSafe
   /\ Len(hist.attempts) > 0
   /\ LastAttempt.err # NilErr)
    => hist.ret = NilErr

\* A FailSafe Call has returned after an attempt that failed with a service
\* error.
C6_Witness ==
  /\ Done
  /\ option.FailMode = FailSafe
  /\ Len(hist.attempts) = 1
  /\ IsServiceError(LastAttempt.err)
  /\ hist.ret = NilErr

\* C7: while the breaker that refused provider P in this Call still
\* refuses, the breaker is still stored for P as it was and the Call has
\* made no attempt on P.
C7_OpenBreakerRefuses ==
  \A p \in DOMAIN hist.refused :
    ~AllowRequest(hist.refused[p], now)
      => /\ p \in DOMAIN breakers
         /\ ~AllowRequest(breakers[p], now)
         /\ \A i \in DOMAIN hist.attempts : hist.attempts[i].p # p

\* C8: with a breaker configured, no Call makes an attempt on a provider
\* while a breaker that was told the result of every Call to that provider
\* is OPEN and refusing, whatever the kind of the failures.
C8_BreakerCountsEveryFailure ==
  BreakerConfigured => ~hist.sentOpen

\* The pooled client of the provider of the last attempt is the client the
\* attempt was made on, and it is not shut down.
StillPooled ==
  /\ LastAttempt.p \in DOMAIN clients
  /\ clients[LastAttempt.p] = LastAttempt.client
  /\ ~rpc[LastAttempt.client].shutdown

\* C9, as the code has it: when the attempt of a Call completes with a
\* ServiceError, the caller receives an error with the remote error string
\* under FailFast, FailRetry and FailOver and nil under FailSafe, and in
\* every mode the provider's pooled client stays pooled and open.
C9_ServiceErrorKeepsClient ==
  (Done /\ Len(hist.attempts) > 0 /\ IsServiceError(LastAttempt.err))
    => /\ option.FailMode # FailSafe
            => (hist.ret # NilErr /\ hist.ret.msg = LastAttempt.err.msg)
       /\ option.FailMode = FailSafe => hist.ret = NilErr
       /\ StillPooled

\* A FailFast Call has returned the remote error "divided by 0" and the
\* client it used is still pooled.
C9_Witness ==
  /\ Done
  /\ option.FailMode = FailFast
  /\ Len(hist.attempts) = 1
  /\ hist.ret = ServiceError("divided by 0")
  /\ StillPooled

\* C9, as stated: under every fail mode the caller receives an error with
\* the remote error string, and the pooled client stays pooled and open.
C9_ServiceErrorEveryMode ==
  (Done /\ Len(hist.attempts) > 0 /\ IsServiceError(LastAttempt.err))
    => /\ hist.ret # NilErr
       /\ hist.ret.msg = LastAttempt.err.msg
       /\ StillPooled

\* C10: when a Call ends with the timeout error, the pooled client of the
\* chosen provider is still pooled and open and the Call made one attempt.
C10_TimeoutKeepsClient ==
  (Done /\ Len(hist.attempts) > 0 /\ hist.ret = ErrTimeOut)
    => /\ StillPooled
       /\ Len(hist.attempts) = 1

\* The error of an attempt that failed on the provider's connection.
IsTransportError(e) == e \in {ErrWrite, ErrorShutDown}

\* C11: under every fail mode, when the attempt of a Call has failed with
\* a transport error, the client the attempt was made on is no longer the
\* provider's pool entry and has been closed.
C11_TransportErrorEvicts ==
  (Done /\ Len(hist.attempts) > 0 /\ IsTransportError(LastAttempt.err))
    => /\ (LastAttempt.p \in DOMAIN clients => clients[LastAttempt.p] # LastAttempt.client)
       /\ rpc[LastAttempt.client].shutdown

(***************************************************************************)
(* Properties of the governance client's heartbeat, checked under SpecHB.  *)
(***************************************************************************)
\* C12: a pooled provider that leaves heartbeats unanswered with its
\* connection open is, for as long as it stays so, eventually degraded in
\* the cached list (and so not selectable), and meanwhile the heartbeat
\* task keeps coming back to its ticker to serve the other providers.
C12_SilentProviderDegraded ==
  \A p \in Providers :
    (hbEnv[p] = "silent" /\ p \in DOMAIN clients)
      ~> (\/ hbEnv[p] # "silent"
          \/ (p \in degraded /\ p \notin Selectable /\ hb.pc = "tick"))

\* C13: when the heartbeat task makes its heartbeat Call on a pooled
\* provider that answers heartbeats, then, for as long as the provider
\* answers, the Call eventually returns and the provider's miss counter is
\* zero and provider_degrade is cleared, so that it is selectable.
C13_AnsweredHeartbeatRestores ==
  \A p \in Providers :
    (hb.pc = "call" /\ hb.key = p /\ hbEnv[p] = "answer")
      ~> (\/ hbEnv[p] # "answer"
          \/ (hb.pc # "call" /\ p \notin degraded /\ p \in Selectable
                /\ p \in DOMAIN hbFail /\ hbFail[p] = 0))

(***************************************************************************)
(* Properties of the registry and the watch task, checked under SpecRG.    *)
(***************************************************************************)
\* Every event offered to the watcher has been taken or given up and the
\* watch task has stored the one it took.
EventsConsumed == regEvents = << >> /\ watch.pc = "next"

\* C14: after any sequence of Register and Unregister calls, once the events
\* they produced have been consumed by the watch task, the cached provider
\* list equals the registry's current provider set (GetServiceList).
C14_CacheEqualsRegistry ==
  (regOps > 0 /\ EventsConsumed) => servers = Elems(GetServiceList)

(***************************************************************************)
(* Properties of Close of the governance client, checked under SpecCL.     *)
(***************************************************************************)
\* C15: after Close of the governance client has returned, the pool of
\* per-provider clients is empty and every client that was pooled when Close
\* was called has been closed (its shutdown flag is set).
C15_CloseEmptiesPool ==
  sgClose.pc = "done" =>
    /\ DOMAIN clients = {}
    /\ \A id \in sgClose.pooled : rpc[id].shutdown

(***************************************************************************)
(* Properties of the server, checked under SpecSV.                         *)
(***************************************************************************)
\* C16: Close of the server returns, with the listener closed, once the
\* in-flight counter is zero or ShutDownWait has gone by: a Close that was
\* called returns, even if a request handler never finishes (unless the
\* server process has ended meanwhile).
C16_CloseReturnsWithinWait ==
  (svClose # "idle") ~> (Crashed \/ (svClose = "done" /\ svShutdown /\ svTr = "closed"))

\* C17: every response frame written on a connection carries the Seq, the
\* ServiceName and the MethodName of the request frame it answers and has
\* MessageType Response, for Request and Heartbeat requests and for OK and
\* Error responses.
C17_ResponseEchoesRequest ==
  written # NothingWritten =>
    /\ written.response.Header.Seq = written.request.Header.Seq
    /\ written.response.Header.ServiceName = written.request.Header.ServiceName
    /\ written.response.Header.MethodName = written.request.Header.MethodName
    /\ written.response.Header.MessageType = MessageTypeResponse

\* A frame other than the connection's first has been answered, the request
\* a heartbeat, the one before it answered with an Error response.
C17_Witness ==
  /\ written # NothingWritten
  /\ written.request.Header.MessageType = MessageTypeHeartbeat
  /\ written.request.Header.Seq = 2
  /\ written.afterError

\* The Error-status response with reason r and an empty body.
IsErrorResponse(f, r) ==
  /\ f.Header.StatusCode = StatusError
  /\ f.Header.Error = r
  /\ f.Data = ""

FrameLayout(frame, m) ==
  LET hbytes == HeaderEncode(m.Header)
      totalLen == 4 + Len(hbytes) + Len(m.Data)
  IN /\ Len(frame) = totalLen + 7
     /\ SubSeq(frame, 1, 3) = <<171, 186, 0>>
     /\ Uint32(SubSeq(frame, 4, 7)) = totalLen
     /\ Uint32(SubSeq(frame, 8, 11)) = Len(hbytes)
     /\ SubSeq(frame, 12, 11 + Len(hbytes)) = hbytes
     /\ SubSeq(frame, 12 + Len(hbytes), Len(frame)) = m.Data

RECURSIVE FramesFrom(_)
\* The frames of the messages from the i-th on, concatenated.
FramesFrom(i) ==
  IF i > Len(prSent) THEN << >> ELSE EncodeMessage(prSent[i]) \o FramesFrom(i + 1)

\* C20: N successive DecodeMessage calls on a stream of N frames give the N
\* messages in order, and the next call gives end-of-stream; if one frame
\* of the stream lacks its last byte, the decode of that frame fails and
\* consumes no byte of the frames after it.
C20_StreamFraming ==
  /\ (prTrunc = 0 /\ prPc = "done") =>
       /\ Len(prGot) = Len(prSent) + 1
       /\ \A i \in 1..Len(prSent) :
            prGot[i] = [kind |-> "msg", err |-> "", msg |-> prSent[i]]
       /\ prGot[Len(prGot)] = [kind |-> "error", err |-> "EOF", msg |-> NoWireMessage]
  /\ (prTrunc > 0 /\ Len(prGot) >= prTrunc) =>
       /\ prGot[prTrunc].kind = "error"
       /\ Len(prGot) = prTrunc => prStream = FramesFrom(prTrunc + 1)

(***************************************************************************)
(* Properties of DecodeMessage on damaged frames, checked under SpecCR.    *)
(***************************************************************************)
\* The cases of a reader r in which decoding is to fail.
WrongMagic(r) == Len(r) >= 2 /\ (r[1] # 171 \/ r[2] # 186)
EndsInPrefix(r) == Len(r) < 3
EndsInLength(r) == Len(r) < 7
LengthField(r) == Uint32(SubSeq(r, 4, 7))
TotalTooSmall(r) == Len(r) >= 7 /\ LengthField(r) < 4
EndsInData(r) == Len(r) >= 7 /\ Len(r) - 7 < LengthField(r)
HeaderRejected(r) ==
  /\ Len(r) >= 11
  /\ Len(r) - 7 >= LengthField(r)
  /\ LengthField(r) >= 4
  /\ Uint32(SubSeq(r, 8, 11)) + 4 <= LengthField(r)
  /\ ~HeaderDecode(SubSeq(r, 12, 11 + Uint32(SubSeq(r, 8, 11)))).ok
FramingErrorCase(r) ==
  \/ WrongMagic(r)
  \/ EndsInPrefix(r)
  \/ EndsInLength(r)
  \/ TotalTooSmall(r)
  \/ EndsInData(r)
  \/ HeaderRejected(r)

\* C21: a call of DecodeMessage on a reader whose first two bytes are not
\* the magic, or whose totalLen is below 4, or which ends before the prefix,
\* the length or the totalLen bytes are read, or whose header bytes the
\* header codec rejects, returns an error and no message.
C21_FramingErrors ==
  [][Decode /\ FramingErrorCase(prStream)
       => /\ prGot'[Len(prGot')].kind = "error"
          /\ prGot'[Len(prGot')].err # ""
          /\ prGot'[Len(prGot')].msg = NoWireMessage]_vars

\* A frame with a damaged header was given to DecodeMessage, which returned
\* the header codec's error.
C21_Witness ==
  /\ prPc = "done"
  /\ prTrunc > 11
  /\ Len(prGot) = 1
  /\ prGot[1].kind = "error"
  /\ prGot[1].err = "msgpack: unexpected end of data"
  /\ prGot[1].msg = NoWireMessage

(***************************************************************************)
(* Properties of sgClient.Go, checked under SpecGO.                        *)
(***************************************************************************)
\* The Calls that are in flight: made, and not yet completed.
InFlight(k) == call[k].pc \in {"write", "wait"} /\ call[k].Done = 0 /\ call[k].fromSeq = 0

\* C22: a Call made by Go on the governance client has a sequence number
\* that no other Call in flight on the same per-provider client has, is in
\* that client's pending table under this number until it is completed or
\* its send fails, and Go returns it (it does not panic).
C22_GoAssignsFreshSeq ==
  \A k \in Calls :
    call[k].byGo =>
      /\ call[k].pc # "panic"
      /\ \A j \in Calls \ {k} : InFlight(j) /\ InFlight(k) => call[j].seq # call[k].seq
      /\ InFlight(k) /\ inputPc = "decode"
           => /\ call[k].seq \in DOMAIN pendingCalls
              /\ pendingCalls[call[k].seq] = k

(***************************************************************************)
(* Properties of the selectors, checked under SpecSL.                      *)
(***************************************************************************)
\* The providers of the call's list that pass every filter of the call.
Passing == {p \in Elems(slArgs.providers) :
              \A i \in DOMAIN slArgs.Filters : ApplyFilter(slArgs.Filters[i], p)}

\* C23: Next of every selector returns (it does not panic) an error, or a
\* provider that is in the list and passes every filter; when no provider
\* passes the filters the error is the empty-provider-list error.
C23_SelectedIsListedAndPasses ==
  slRet # NoRet =>
    /\ slRet.kind = "return"
    /\ slRet.err = NilErr => slRet.rp \in Passing
    /\ Passing = {} => slRet.err = ErrEmptyProviderList

(***************************************************************************)
(* Properties of Registry.Unregister, checked under SpecRG.                *)
(***************************************************************************)
\* The providers the Unregister call of this step was given: the event it
\* leaves for the watchers carries them.
Unregistered == Elems(regEvents'[Len(regEvents')])

\* C24: after Unregister(P...), GetServiceList holds no provider whose key
\* is in P and holds every provider registered before whose key is not in P.
C24_UnregisterRemovesExactlyP ==
  [][Unregister
       => /\ \A p \in Elems(regProviders') : p \notin Unregistered
          /\ \A p \in Elems(regProviders) : p \notin Unregistered => p \in Elems(regProviders')]_vars

(***************************************************************************)
(* Properties of SGServer.Register, checked under SpecRS.                  *)
(***************************************************************************)
\* The methods of the last registered type that are exported and have the
\* signature (Context, Arg, *Reply) -> error with Arg and Reply exported or
\* builtin.
Matching ==
  {n \in DOMAIN regRet.typ.methods :
     regRet.typ.methods[n] \in
       {sh \in MethodShapes : /\ sh.exported /\ sh.NumIn = 4 /\ sh.ctxIsContext
                              /\ sh.argExported /\ sh.replyPtr /\ sh.replyExported
                              /\ sh.NumOut = 1 /\ sh.outIsError}}

\* C25: Register records exactly the matching methods of the receiver's
\* type; with no matching method, or with a name that is registered
\* already, it returns an error and leaves the service table as it was.
C25_RegisterRecordsSuitable ==
  regRet.calls > 0 =>
    /\ (Matching # {} /\ regRet.typ.name \notin DOMAIN regRet.before)
         => /\ regRet.err = NilErr
            /\ svcMap = Store(regRet.before, regRet.typ.name, Matching)
    /\ Matching = {} => regRet.err # NilErr /\ svcMap = regRet.before
    /\ regRet.typ.name \in DOMAIN regRet.before
         => regRet.err # NilErr /\ svcMap = regRet.before

\* A type has been registered with Add, its one matching method, and then
\* a type of the same name, with methods, was registered and refused.
C25_Witness ==
  /\ regRet.calls = 2
  /\ regRet.typ.name \in DOMAIN regRet.before
  /\ regRet.err = ErrServiceDefined
  /\ \E n \in DOMAIN svcMap :
       /\ svcMap[n] = {"Add"}
       /\ regRet.typ.name = n
       /\ regRet.typ.methods # << >>

(***************************************************************************)
(* Properties of a heartbeat Call on the single-provider client, checked   *)
(* under SpecHC.                                                           *)
(***************************************************************************)
IsHeartbeatCall(k) == call[k].pc # "idle" /\ call[k].ServiceMethod = ""

\* C26: a heartbeat Call (empty service method) whose frame was written to
\* a server that answers does not terminate the client process or the
\* receive loop, and when it has returned it has returned nil and its entry
\* is out of the pending table.
C26_HeartbeatCallHarmless ==
  \A k \in Calls :
    IsHeartbeatCall(k) /\ call[k].pc \in {"wait", "return", "returned"} /\ call[k].Error # ErrWrite
      => /\ ~fatal
         /\ inputPc # "close"
         /\ call[k].pc = "returned"
              => call[k].ret = NilErr /\ call[k].seq \notin DOMAIN pendingCalls

\* C27: the response written for a request frame whose MessageType is
\* Heartbeat has StatusCode OK, an empty Error and an empty body: the
\* service and method lookup is skipped.
C27_HeartbeatAnsweredOK ==
  (written # NothingWritten /\ written.request.Header.MessageType = MessageTypeHeartbeat)
    => /\ written.response.Header.StatusCode = StatusOK
       /\ written.response.Header.Error = ""
       /\ written.response.Data = ""

(***************************************************************************)
(* Properties of sgClient.Call when no client is acquired, and of its      *)
(* result under FailRetry and FailOver, checked under SpecSG.              *)
(***************************************************************************)
\* C28: in every fail mode, when provider selection or the acquisition of
\* the pooled client fails, Call never calls the absent (nil) per-provider
\* client, and it returns to its caller: an error, or nil under FailSafe.
C28_NoCallOnAbsentClient ==
  /\ sg.pc # "panic"
  /\ (sg.pc = "done" /\ sg.rpcClient = 0 /\ Len(hist.attempts) = 0)
       => (hist.ret # NilErr \/ option.FailMode = FailSafe)

\* C29: under FailRetry and FailOver, for every value of Retries, Call
\* returns nil only if it made the call on a provider and that call
\* returned no error.
C29_NilOnlyAfterCall ==
  (sg.pc = "done" /\ option.FailMode \in {FailRetry, FailOver} /\ hist.ret = NilErr)
    => /\ Len(hist.attempts) > 0
       /\ hist.attempts[Len(hist.attempts)].err = NilErr

(***************************************************************************)
(* Properties of the context interceptor, checked under SpecWC.            *)
(***************************************************************************)
\* C30: the context of the call has the timeout of the caller's deadline
\* if there is one, otherwise RequestTimeout; with no deadline and a zero
\* RequestTimeout its deadline has not come when it is made, and the Call
\* waits for the response: it does not return the time-out error.
C30_NoTimeoutMeansWait ==
  wc.pc \in {"select", "returned"} =>
    /\ wc.hasDeadline => wc.timeout = wc.deadline
    /\ (~wc.hasDeadline /\ wc.RequestTimeout # 0) => wc.timeout = wc.RequestTimeout
    /\ (~wc.hasDeadline /\ wc.RequestTimeout = 0)
         => /\ wc.ctxDeadline > 0
            /\ wc.pc = "returned" => wc.ret = NilErr /\ wc.answered

(***************************************************************************)
(* Properties of the pool of per-provider clients, checked under SpecSG.   *)
(***************************************************************************)
\* C31: every per-provider client that has been dialled is the current pool
\* entry of its ProviderKey or has been closed: no client is dropped from
\* the pool or overwritten in it without being closed.
C31_DialledClientPooledOrClosed ==
  \A id \in DOMAIN rpc :
    \/ rpc[id].shutdown
    \/ (rpc[id].key \in DOMAIN clients /\ clients[rpc[id].key] = id)

(***************************************************************************)
(* Properties of the receive loop after a body that does not decode,       *)
(* checked under SpecSP.                                                   *)
(***************************************************************************)
\* C32: when the body of a response cannot be decoded into the Call's
\* reply, that Call is completed with the codec error and the receive loop
\* goes on to the next frame: the client is not shut down.
C32_BodyErrorIsPerCall ==
  [][(InputSignal /\ call[inputCall].Error = ErrReadingBody)
       => (inputPc' = "decode" /\ ~shutdown')]_vars

\* C33: the handler of a connection does not crash on a request whose
\* SerializeType is not a tag of the codecs table: the request is decoded
\* with the server's own codec and answered.
C33_UnknownCodecAnswered ==
  /\ ~Crashed
  /\ (written # NothingWritten /\ written.request.Header.SerializeType \notin codecs)
       => written.response.Header.MessageType = MessageTypeResponse

\* A whole frame whose headerLen field is greater than totalLen - 4.
HeaderLenTooLong(r) ==
  /\ Len(r) >= 11
  /\ ~WrongMagic(r)
  /\ LengthField(r) >= 4
  /\ Len(r) - 7 >= LengthField(r)
  /\ Uint32(SubSeq(r, 8, 11)) > LengthField(r) - 4

\* C34: a call of DecodeMessage on a frame whose headerLen exceeds
\* totalLen - 4 returns an error and no message; it does not index out of
\* range.
C34_LongHeaderLenIsError ==
  [][Decode /\ HeaderLenTooLong(prStream)
       => /\ prGot'[Len(prGot')].kind = "error"
          /\ prGot'[Len(prGot')].msg = NoWireMessage]_vars

\* C35: once Close has returned on a server whose Serve is in the accept
\* loop, Serve eventually returns nil (unless a handler's panic has ended
\* the process).
C35_ServeReturnsNilAfterClose ==
  (svClose = "done" /\ srv.pc \in {"top", "accept"})
    ~> ((srv.pc = "returned" /\ srv.ret = "nil") \/ Crashed)

\* C36: a handler that reaches the head of its loop with the shutdown flag
\* set closes its transport and returns.
C36_HandlerEndsOnShutdown ==
  [][(serveTransportTop /\ svShutdown) => (conn'.closed /\ conn'.pc = "returned")]_vars

\* C37: after Close of the governance client has returned, its watcher is
\* eventually out of the registry's watcher set and closed, the watch task
\* has returned, and the calls other users make on the registry return.
C37_CloseRemovesWatcher ==
  (sgClose.pc = "done")
    ~> (/\ uw.pc = "done"
        /\ uw.exit = "closed"
        /\ uw.ws = "returned"
        /\ "w" \notin uw.watchers
        /\ uw.calls = MaxRegistryCalls)

\* The frame the last written response answers (0: nothing written yet).
C38_Answered == IF written = NothingWritten THEN 0 ELSE written.request.Header.Seq

C39_NoSendAfterClose ==
  [][\A k \in Calls :
       (inputPc = "closed" /\ call[k].pc = "write" /\ call'[k].pc # "write")
         => (wire' = wire /\ call[k].seq \notin DOMAIN pendingCalls')]_vars

\* C40: when the receive loop or Close is about to signal a Call's
\* completion, the Call's channel has room or its caller is still to
\* receive from it: the signalling task is never held at a full channel
\* that nobody will read.
C40_SignalNeverStuck ==
  inputPc \in {"signal", "faildone"}
    => \/ call[inputCall].Done < 1
       \/ call[inputCall].pc \notin {"seterr", "return", "returned"}

====
